---- MODULE Spec2Model ----
(***************************************************************************)
(* The agentic tool-calling loop analyzeMediaAgentic and its helper        *)
(* mergeOverlayData (src/remotion/components/DistanceLine.tsx).            *)
(*                                                                         *)
(* JavaScript values are modelled as follows.                              *)
(*   - a string is a sequence of tokens ("" is << >>, += is \o);           *)
(*   - an object is a record; an optional field that is missing is a field *)
(*     that is not in the record's DOMAIN;                                 *)
(*   - the value of an overlay field, which arrives untyped from the       *)
(*     provider, is [array |-> s], [number |-> n] or [string |-> s].       *)
(***************************************************************************)
EXTENDS Integers, Sequences, FiniteSets, TLC

MAX_ITERATIONS == 10
MIN_ITERATIONS == 5

\* Largest number of text parts in a model turn without a tool call.
MaxTextParts == 2
\* Largest number of elements per sequence in the delta of one tool call.
MaxDelta == 2
\* Largest number of sessions the caller starts one after the other.
MaxSessions == 2
\* Largest number of tokens (words, newlines, fenced blocks) in a single-shot reply.
MaxTokens == 4

VARIABLES
    client,          \* the scripted Model Client of this session
    pc,              \* "loop" (top of the for loop), "await" (generateContent in flight), "done"; "idle" before a view's first session
    iteration,       \* the for loop's counter
    toolCallCount,
    accumulatedSpec,
    contents,        \* the transcript replayed to the model
    timers,          \* callbacks scheduled with setTimeout(..., 0), in scheduling order
    modelCalls,      \* number of generateContent calls made
    outcome,         \* which return statement ended the session
    result,          \* the value the promise resolves to
    error,           \* the exception the catch block has caught, if any
    sink,            \* how the Progress Sink behaves when it is called
    delivered,       \* the events the Progress Sink has received, in order
    uncaught,        \* exceptions of timer callbacks reported to the host
    session,         \* how many sessions the caller has started
    probe,           \* arguments and result of a direct call of mergeOverlayData
    peer,            \* the locals of another call of analyzeMediaAgentic in progress
    view             \* the state of the AnalysisView component that calls the loop

\* What lies outside the function analyzeMediaAgentic.
envVars == <<sink, delivered, uncaught, session, probe, peer, view>>

vars == <<client, pc, iteration, toolCallCount, accumulatedSpec, contents,
          timers, modelCalls, outcome, result, error, sink, delivered, uncaught,
          session, probe, peer, view>>

OverlayFields == {"attackLines", "defenseLines", "movementPaths", "zones", "annotations"}

----------------------------------------------------------------------------
(* Elements a model reply can carry.  Every element is tagged with the     *)
(* number of the model call that produced it and its index in the delta.   *)

Pos(x, y) == [x |-> x, y |-> y]

Pts(k) == [i \in 1..k |-> Pos(10 * i, 20)]

LineOf(n, i) == [id |-> <<"line", n, i>>, from |-> Pos(10, 10), to |-> Pos(90, 50)]

PathOf(n, i) == [id |-> <<"path", n, i>>, points |-> Pts(2), type |-> "neutral"]

\* A zone with k points; the schema asks for at least 3.
ZoneOf(n, i, k) == [id |-> <<"zone", n, i>>, points |-> Pts(k), type |-> "attack"]

NoteOf(n, i) == [id |-> <<"note", n, i>>, position |-> Pos(50, 50), text |-> <<"open">>]

Arr(s) == [array |-> s]

Num(n) == [number |-> n]

Str(s) == [string |-> s]

----------------------------------------------------------------------------
(* The scripted Model Client.  A client answers every call with one of:    *)
(* its tool call, its turn without a tool call, a response without content *)
(* parts, or a failure of the call.                                        *)

ToolShapes == {"line", "path", "badzone", "numfield", "strfield", "nooverlay",
               "wrongname", "noargs", "textcall", "oddstage"}

ToolKinds == {[call |-> c, size |-> 1] : c \in ToolShapes}
             \cup {[call |-> "full", size |-> d] : d \in 0..MaxDelta}

NoToolKinds == {[say |-> "text", size |-> k] : k \in 0..MaxTextParts}
               \cup {[say |-> "blank", size |-> 1]}

LineKind == [call |-> "line", size |-> 1]

DoneKind == [say |-> "text", size |-> 1]

Clients == {[tool |-> t, noTool |-> DoneKind] : t \in ToolKinds}
           \cup {[tool |-> LineKind, noTool |-> s] : s \in NoToolKinds}

\* The overlay delta of the n-th model call, for each shape of tool call.
OverlayOf(kind, n) ==
    CASE kind.call = "line" -> [attackLines |-> Arr(<<LineOf(n, 1)>>)]
      [] kind.call = "textcall" -> [defenseLines |-> Arr(<<LineOf(n, 1)>>)]
      [] kind.call = "wrongname" -> [attackLines |-> Arr(<<LineOf(n, 1)>>)]
      [] kind.call = "oddstage" -> [attackLines |-> Arr(<<LineOf(n, 1)>>)]
      [] kind.call = "path" -> [movementPaths |-> Arr(<<PathOf(n, 1)>>)]
      [] kind.call = "badzone" ->
            [attackLines |-> Arr(<<LineOf(n, 1)>>),
             zones |-> Arr(<<ZoneOf(n, 1, 2), ZoneOf(n, 2, 3)>>),
             annotations |-> Arr(<<NoteOf(n, 1)>>)]
      [] kind.call = "numfield" ->
            [attackLines |-> Num(7), defenseLines |-> Arr(<<LineOf(n, 1)>>)]
      [] kind.call = "strfield" ->
            [attackLines |-> Str(<<"a", "b">>), defenseLines |-> Arr(<<LineOf(n, 1)>>)]
      [] kind.call = "full" ->
            [attackLines |-> Arr([i \in 1..kind.size |-> LineOf(n, i)]),
             defenseLines |-> Arr([i \in 1..kind.size |-> LineOf(n, i)]),
             movementPaths |-> Arr([i \in 1..kind.size |-> PathOf(n, i)]),
             zones |-> Arr([i \in 1..kind.size |-> ZoneOf(n, i, 3)]),
             annotations |-> Arr([i \in 1..kind.size |-> NoteOf(n, i)])]

StepId(n) == "step" \o ToString(n)

ArgsOf(kind, n) ==
    IF kind.call = "nooverlay"
    THEN [id |-> StepId(n), thinking |-> <<"look">>, stage |-> "think"]
    ELSE [id |-> StepId(n), overlay |-> OverlayOf(kind, n),
          thinking |-> <<"look">>,
          stage |-> IF kind.call = "oddstage" THEN "replay" ELSE "diagram"]

FunctionCallOf(kind, n) ==
    CASE kind.call = "noargs" -> [name |-> "show_overlay"]
      [] kind.call = "wrongname" -> [name |-> "zoom_in", args |-> ArgsOf(kind, n)]
      [] OTHER -> [name |-> "show_overlay", args |-> ArgsOf(kind, n)]

ToolParts(kind, n) ==
    IF kind.call = "textcall"
    THEN <<[text |-> <<"Drawing.">>], [functionCall |-> FunctionCallOf(kind, n)]>>
    ELSE <<[functionCall |-> FunctionCallOf(kind, n)]>>

TextParts(kind) ==
    IF kind.say = "blank"
    THEN <<[text |-> <<>>]>>
    ELSE [i \in 1..kind.size |-> [text |-> IF i = kind.size THEN <<"Done.">> ELSE <<"Summary.">>]]

\* A client with a script answers its first calls with its tool call and
\* every later call in one way; a client without a script answers each call
\* in any way.
Offers(c, n, way) ==
    IF "script" \in DOMAIN c
    THEN way = (IF n <= c.script.upto THEN "tool" ELSE c.script.then)
    ELSE TRUE

\* The answers the client can give to its n-th call.
Responses(c, n) ==
    (IF Offers(c, n, "tool")
     THEN {[candidates |-> <<[content |-> [parts |-> ToolParts(c.tool, n)]]>>]}
     ELSE {})
    \cup (IF Offers(c, n, "noTool")
          THEN {[candidates |-> <<[content |-> [parts |-> TextParts(c.noTool)]]>>]}
          ELSE {})
    \cup (IF Offers(c, n, "noContent")
          THEN {[candidates |-> <<[finishReason |-> "SAFETY"]>>]}
          ELSE {})

\* The messages of the errors generateContent can throw.
ProviderErrors == { <<"quota exceeded">>, <<"API_KEY", "sk-123", "not valid">>, <<>> }

----------------------------------------------------------------------------
(* mergeOverlayData *)

\* JavaScript truthiness of the value of an overlay field.
Truthy(v) ==
    CASE "array" \in DOMAIN v -> TRUE
      [] "number" \in DOMAIN v -> v.number # 0
      [] "string" \in DOMAIN v -> v.string # <<>>

\* (obj.f || [])
OrEmpty(obj, f) == IF f \in DOMAIN obj /\ Truthy(obj[f]) THEN obj[f] ELSE Arr(<<>>)

\* Whether [...v] is defined: a number is not iterable and makes the spread throw.
Iterable(v) == "number" \notin DOMAIN v

\* [...v] for an iterable v: the elements of an array, the characters of a string.
Spread(v) ==
    IF "array" \in DOMAIN v
    THEN v.array
    ELSE [i \in 1..Len(v.string) |-> [char |-> v.string[i]]]

MergeThrows(accumulated, newData) ==
    \E f \in OverlayFields :
        ~Iterable(OrEmpty(accumulated, f)) \/ ~Iterable(OrEmpty(newData, f))

RECURSIVE Reversed(_)
Reversed(s) == IF s = <<>> THEN <<>> ELSE Append(Reversed(Tail(s)), Head(s))

\* for (const e of newData.f) merged.unshift(e)
MergedField_Unshift(accumulated, newData, f) ==
    Reversed(Spread(OrEmpty(newData, f))) \o Spread(OrEmpty(accumulated, f))

MergedField_Prepend(accumulated, newData, f) ==
    Spread(OrEmpty(newData, f)) \o Spread(OrEmpty(accumulated, f))

MergedField(accumulated, newData, f) ==
    Spread(OrEmpty(accumulated, f)) \o Spread(OrEmpty(newData, f))

mergeOverlayData(accumulated, newData) ==
    [f \in DOMAIN accumulated \cup OverlayFields |->
        IF f \in OverlayFields
        THEN Arr(MergedField(accumulated, newData, f))
        ELSE accumulated[f]]

----------------------------------------------------------------------------
(* analyzeMediaAgentic *)

EmptySpec ==
    [type |-> Str(<<"play_diagram">>), title |-> Str(<<"Analysis">>),
     attackLines |-> Arr(<<>>), defenseLines |-> Arr(<<>>),
     movementPaths |-> Arr(<<>>), zones |-> Arr(<<>>), annotations |-> Arr(<<>>)]

InitialContents ==
    << [role |-> "user",
        parts |-> << [inlineData |-> [mimeType |-> "image/png", data |-> "aGk="]],
                     [text |-> <<"Analyze this play.">>] >>] >>

NoResult == [pending |-> TRUE]

\* Nothing has been thrown inside the try block.
NoError == [thrown |-> FALSE]

\* new Error(msg)
ErrorOf(msg) == [thrown |-> TRUE, message |-> msg]

\* No direct call of mergeOverlayData is being looked at.
NoProbe == [idle |-> TRUE]

\* No other call of analyzeMediaAgentic is in progress.
NoPeer == [none |-> TRUE]

\* No AnalysisView is mounted: the loop is called directly.
NoView == [mounted |-> FALSE]

Init ==
    /\ client \in Clients
    /\ pc = "loop"
    /\ iteration = 0
    /\ toolCallCount = 0
    /\ accumulatedSpec = EmptySpec
    /\ contents = InitialContents
    /\ timers = <<>>
    /\ modelCalls = 0
    /\ outcome = "running"
    /\ result = NoResult
    /\ error = NoError
    /\ sink = "ok"
    /\ delivered = <<>>
    /\ uncaught = 0
    /\ session = 1
    /\ peer = NoPeer
    /\ view = NoView
    /\ probe = NoProbe

\* accumulatedSpec.f?.length
LengthOf(spec, f) == IF f \in DOMAIN spec THEN Len(spec[f].array) ELSE 0

\* The condition under which the normal completion return hands out the overlay.
CompletionHasOverlay(spec) ==
    \/ LengthOf(spec, "attackLines") # 0
    \/ LengthOf(spec, "defenseLines") # 0
    \/ LengthOf(spec, "zones") # 0
    \/ LengthOf(spec, "annotations") # 0

\* The condition under which the catch block hands out the overlay.
CatchHasOverlay(spec) ==
    \/ LengthOf(spec, "attackLines") # 0
    \/ LengthOf(spec, "defenseLines") # 0
    \/ LengthOf(spec, "zones") # 0

Includes(msg, token) == \E i \in 1..Len(msg) : msg[i] = token

\* The catch block without the test for "API_KEY".
ErrorText_Raw(msg) ==
    <<"Analysis failed: ">> \o (IF msg = <<>> THEN <<"Unknown error occurred">> ELSE msg) \o <<".">>

ErrorText(msg) ==
    IF Includes(msg, "API_KEY")
    THEN <<"Error: API Key is missing or invalid. Please check your configuration.">>
    ELSE <<"Analysis failed: ">> \o (IF msg = <<>> THEN <<"Unknown error occurred">> ELSE msg) \o <<".">>

\* The catch block: the error becomes a returned result.
Catch(msg, spec) ==
    IF CatchHasOverlay(spec)
    THEN [text |-> ErrorText(msg), visualizations |-> <<spec>>]
    ELSE [text |-> ErrorText(msg)]

\* candidate?.content?.parts is present
HasParts(response) ==
    /\ Len(response.candidates) > 0
    /\ "content" \in DOMAIN response.candidates[1]
    /\ "parts" \in DOMAIN response.candidates[1].content

PartsOf(response) == response.candidates[1].content.parts

IsFunctionCallPart(part) == "functionCall" \in DOMAIN part

\* candidate.content.parts[0].functionCall
HasFunctionCall_FirstPartOnly(parts) == parts # <<>> /\ IsFunctionCallPart(parts[1])

\* candidate.content.parts.find(part => part.functionCall)
HasFunctionCall(parts) == \E i \in 1..Len(parts) : IsFunctionCallPart(parts[i])

FindFunctionCall(parts) ==
    parts[CHOOSE i \in 1..Len(parts) :
            /\ IsFunctionCallPart(parts[i])
            /\ \A j \in 1..(i - 1) : ~IsFunctionCallPart(parts[j])].functionCall

ModelTurn(parts) == [role |-> "model", parts |-> parts]

LoopTest_Inclusive(i) == i <= MAX_ITERATIONS

\* The for loop's test.
LoopTest(i) == i < MAX_ITERATIONS

BelowMinimum_OffByOne(count) == count < MIN_ITERATIONS - 1

\* The test of the forced-continuation branch.
BelowMinimum(count) == count < MIN_ITERATIONS

\* The for loop's test passes: generateContent is called and awaited.
CallModel ==
    /\ pc = "loop"
    /\ LoopTest(iteration)
    /\ pc' = "await"
    /\ modelCalls' = modelCalls + 1
    /\ UNCHANGED <<client, iteration, toolCallCount, accumulatedSpec, contents,
                   timers, outcome, result>>
    /\ UNCHANGED error
    /\ UNCHANGED envVars

ProviderFails_Uncaught ==
    /\ pc = "await"
    /\ pc' = "threw"
    /\ UNCHANGED <<client, iteration, toolCallCount, accumulatedSpec, contents,
                   timers, modelCalls, outcome, result>>
    /\ UNCHANGED error
    /\ UNCHANGED envVars

ProviderFails_Retry ==
    /\ pc = "await"
    /\ iteration' = iteration + 1
    /\ pc' = "loop"
    /\ UNCHANGED <<client, toolCallCount, accumulatedSpec, contents,
                   timers, modelCalls, outcome, result>>
    /\ UNCHANGED error
    /\ UNCHANGED envVars

\* generateContent rejects: control passes to the catch block.
ProviderFails ==
    /\ pc = "await"
    /\ Offers(client, modelCalls, "fail")
    /\ \E msg \in ProviderErrors :
          /\ error' = ErrorOf(msg)
          /\ result' = Catch(msg, accumulatedSpec)
    /\ pc' = "done"
    /\ outcome' = "error"
    /\ UNCHANGED <<client, iteration, toolCallCount, accumulatedSpec, contents,
                   timers, modelCalls>>
    /\ UNCHANGED envVars

ReturnAfterLoop_OnlyIfVisible(spec) ==
    IF \E f \in OverlayFields : LengthOf(spec, f) # 0
    THEN [text |-> <<"Analysis reached maximum iterations.">>, visualizations |-> <<spec>>]
    ELSE [text |-> <<"Analysis reached maximum iterations.">>]

\* The return statement after the for loop.
ReturnAfterLoop(spec) ==
    [text |-> <<"Analysis reached maximum iterations.">>, visualizations |-> <<spec>>]

\* The response has no content parts: break, then the return after the loop.
NoContentParts ==
    /\ pc = "await"
    /\ \E response \in Responses(client, modelCalls) :
          ~HasParts(response)
    /\ result' = ReturnAfterLoop(accumulatedSpec)
    /\ pc' = "done"
    /\ outcome' = "noContent"
    /\ UNCHANGED <<client, iteration, toolCallCount, accumulatedSpec, contents,
                   timers, modelCalls>>
    /\ UNCHANGED error
    /\ UNCHANGED envVars

IdText(args) == IF "id" \in DOMAIN args THEN args.id ELSE "undefined"

ProgressMessage(args, remainingCalls) ==
    IF remainingCalls > 0
    THEN <<"Overlay ", IdText(args), " displayed. You MUST make at least ",
           ToString(remainingCalls), " more tool calls before providing final summary.">>
    ELSE <<"Overlay ", IdText(args),
           " displayed successfully. Continue with next step or provide final summary.">>

\* remainingCalls computed from the count before this call.
FunctionResponse_StaleCount(args, count) ==
    [role |-> "user",
     parts |-> << [functionResponse |->
                     [name |-> "show_overlay",
                      response |-> [success |-> TRUE,
                                    message |-> ProgressMessage(args, MIN_ITERATIONS - (count - 1))]]] >>]

FunctionResponse(args, count) ==
    [role |-> "user",
     parts |-> << [functionResponse |->
                     [name |-> "show_overlay",
                      response |-> [success |-> TRUE,
                                    message |-> ProgressMessage(args, MIN_ITERATIONS - count)]]] >>]

ToolCallEvent(fc) == [type |-> "tool_call", toolName |-> fc.name, args |-> fc.args]

\* The call is handled only when its stage is one the schema lists.
IsShowOverlay_KnownStage(fc) ==
    /\ fc.name = "show_overlay"
    /\ "args" \in DOMAIN fc
    /\ fc.args.stage \in {"diagram", "think", "finalize"}

\* name === 'show_overlay' && args
IsShowOverlay(fc) == fc.name = "show_overlay" /\ "args" \in DOMAIN fc

\* The merge of the delta of a show_overlay call throws.
CallThrows(fc, spec) == "overlay" \in DOMAIN fc.args /\ MergeThrows(spec, fc.args.overlay)

\* accumulatedSpec after a show_overlay call whose merge does not throw.
SpecAfterCall(fc, spec) ==
    IF "overlay" \in DOMAIN fc.args
    THEN mergeOverlayData(spec, fc.args.overlay)
    ELSE spec

\* A turn with a show_overlay call: count, merge, schedule the event, acknowledge.
ToolCallReceived ==
    /\ pc = "await"
    /\ \E response \in Responses(client, modelCalls) :
          /\ HasParts(response)
          /\ HasFunctionCall(PartsOf(response))
          /\ LET fc == FindFunctionCall(PartsOf(response)) IN
                /\ IsShowOverlay(fc)
                /\ ~CallThrows(fc, accumulatedSpec)
                /\ accumulatedSpec' = SpecAfterCall(fc, accumulatedSpec)
                /\ timers' = Append(timers, ToolCallEvent(fc))
                /\ contents' = contents \o <<ModelTurn(PartsOf(response)),
                                             FunctionResponse(fc.args, toolCallCount + 1)>>
    /\ toolCallCount' = toolCallCount + 1
    /\ iteration' = iteration + 1
    /\ pc' = "loop"
    /\ UNCHANGED <<client, modelCalls, outcome, result>>
    /\ UNCHANGED error
    /\ UNCHANGED envVars

\* A turn with a show_overlay call whose merge throws: control passes to the catch block.
ToolCallThrows ==
    /\ pc = "await"
    /\ \E response \in Responses(client, modelCalls) :
          /\ HasParts(response)
          /\ HasFunctionCall(PartsOf(response))
          /\ LET fc == FindFunctionCall(PartsOf(response)) IN
                /\ IsShowOverlay(fc)
                /\ CallThrows(fc, accumulatedSpec)
          /\ contents' = Append(contents, ModelTurn(PartsOf(response)))
    /\ toolCallCount' = toolCallCount + 1
    /\ error' = ErrorOf(<<"newData.attackLines is not iterable">>)
    /\ result' = Catch(<<"newData.attackLines is not iterable">>, accumulatedSpec)
    /\ pc' = "done"
    /\ outcome' = "error"
    /\ UNCHANGED <<client, iteration, accumulatedSpec, timers, modelCalls>>
    /\ UNCHANGED envVars

\* toolCallCount++ placed inside the show_overlay branch.
ToolCallIgnored_NotCounted ==
    /\ pc = "await"
    /\ \E response \in Responses(client, modelCalls) :
          /\ HasParts(response)
          /\ HasFunctionCall(PartsOf(response))
          /\ ~IsShowOverlay(FindFunctionCall(PartsOf(response)))
          /\ contents' = Append(contents, ModelTurn(PartsOf(response)))
    /\ iteration' = iteration + 1
    /\ pc' = "loop"
    /\ UNCHANGED <<client, toolCallCount, accumulatedSpec, timers, modelCalls, outcome, result>>
    /\ UNCHANGED error
    /\ UNCHANGED envVars

\* A turn with a function call that is not a show_overlay call with arguments:
\* it is counted and nothing else is done.
ToolCallIgnored ==
    /\ pc = "await"
    /\ \E response \in Responses(client, modelCalls) :
          /\ HasParts(response)
          /\ HasFunctionCall(PartsOf(response))
          /\ ~IsShowOverlay(FindFunctionCall(PartsOf(response)))
          /\ contents' = Append(contents, ModelTurn(PartsOf(response)))
    /\ toolCallCount' = toolCallCount + 1
    /\ iteration' = iteration + 1
    /\ pc' = "loop"
    /\ UNCHANGED <<client, accumulatedSpec, timers, modelCalls, outcome, result>>
    /\ UNCHANGED error
    /\ UNCHANGED envVars

ForceMessage(count) ==
    <<"You have only made ", ToString(count),
      " tool calls. You MUST use the show_overlay tool at least ",
      ToString(MIN_ITERATIONS - count),
      " more times before providing your final summary. Continue with stage=\"think\" or stage=\"diagram\" to add more analysis elements.">>

ForceTurn(count) == [role |-> "user", parts |-> <<[text |-> ForceMessage(count)]>>]

\* A turn without a function call before the minimum: the model is told to continue.
ForcedContinuation ==
    /\ pc = "await"
    /\ \E response \in Responses(client, modelCalls) :
          /\ HasParts(response)
          /\ ~HasFunctionCall(PartsOf(response))
          /\ BelowMinimum(toolCallCount)
          /\ contents' = contents \o <<ModelTurn(PartsOf(response)), ForceTurn(toolCallCount)>>
    /\ iteration' = iteration + 1
    /\ pc' = "loop"
    /\ UNCHANGED <<client, toolCallCount, accumulatedSpec, timers, modelCalls,
                   outcome, result>>
    /\ UNCHANGED error
    /\ UNCHANGED envVars

\* finalText taken from the first part only.
ConcatText_FirstOnly(parts) ==
    IF parts # <<>> /\ "text" \in DOMAIN Head(parts) THEN Head(parts).text ELSE <<>>

RECURSIVE ConcatText(_)
\* finalText: the text parts of the turn, concatenated in order.
ConcatText(parts) ==
    IF parts = <<>>
    THEN <<>>
    ELSE (IF "text" \in DOMAIN Head(parts) THEN Head(parts).text ELSE <<>>)
         \o ConcatText(Tail(parts))

\* The event built from the text the result carries.
CompletionEvent_WithFallback(finalText) ==
    [type |-> "completion",
     finalText |-> IF finalText # <<>> THEN finalText ELSE <<"Analysis complete.">>]

CompletionEvent(finalText) == [type |-> "completion", finalText |-> finalText]

CompletionResult(finalText, spec) ==
    LET text == IF finalText # <<>> THEN finalText ELSE <<"Analysis complete.">> IN
    IF CompletionHasOverlay(spec)
    THEN [text |-> text, visualizations |-> <<spec>>]
    ELSE [text |-> text]

CompletionAccepted_Sync ==
    /\ pc = "await"
    /\ \E response \in Responses(client, modelCalls) :
          /\ HasParts(response)
          /\ ~HasFunctionCall(PartsOf(response))
          /\ ~BelowMinimum(toolCallCount)
          /\ contents' = Append(contents, ModelTurn(PartsOf(response)))
          /\ delivered' = Append(delivered, CompletionEvent(ConcatText(PartsOf(response))))
          /\ result' = CompletionResult(ConcatText(PartsOf(response)), accumulatedSpec)
    /\ pc' = "done"
    /\ outcome' = "completed"
    /\ UNCHANGED <<client, iteration, toolCallCount, accumulatedSpec, modelCalls, timers>>
    /\ UNCHANGED error
    /\ UNCHANGED <<sink, uncaught, session, probe, peer, view>>

\* A turn without a function call once the minimum is met: the session returns.
CompletionAccepted ==
    /\ pc = "await"
    /\ \E response \in Responses(client, modelCalls) :
          /\ HasParts(response)
          /\ ~HasFunctionCall(PartsOf(response))
          /\ ~BelowMinimum(toolCallCount)
          /\ contents' = Append(contents, ModelTurn(PartsOf(response)))
          /\ timers' = Append(timers, CompletionEvent(ConcatText(PartsOf(response))))
          /\ result' = CompletionResult(ConcatText(PartsOf(response)), accumulatedSpec)
    /\ pc' = "done"
    /\ outcome' = "completed"
    /\ UNCHANGED <<client, iteration, toolCallCount, accumulatedSpec, modelCalls>>
    /\ UNCHANGED error
    /\ UNCHANGED envVars

\* The for loop's test fails.
MaxIterationsReached ==
    /\ pc = "loop"
    /\ ~LoopTest(iteration)
    /\ result' = ReturnAfterLoop(accumulatedSpec)
    /\ pc' = "done"
    /\ outcome' = "maxIterations"
    /\ UNCHANGED <<client, iteration, toolCallCount, accumulatedSpec, contents,
                   timers, modelCalls>>
    /\ UNCHANGED error
    /\ UNCHANGED envVars

Next ==
    \/ CallModel
    \/ ProviderFails
    \/ NoContentParts
    \/ ToolCallReceived
    \/ ToolCallThrows
    \/ ToolCallIgnored
    \/ ForcedContinuation
    \/ CompletionAccepted
    \/ MaxIterationsReached

Spec == Init /\ [][Next]_vars

----------------------------------------------------------------------------
(* The host's timer queue and the Progress Sink *)

\* The variables of analyzeMediaAgentic other than the timers it schedules.
loopVars == <<client, pc, iteration, toolCallCount, accumulatedSpec, contents,
              modelCalls, outcome, result, error>>

\* A sink that returns, and a sink that throws on every event.
SinkKinds == {"ok", "throws"}

EventInit ==
    /\ client \in Clients
    /\ pc = "loop"
    /\ iteration = 0
    /\ toolCallCount = 0
    /\ accumulatedSpec = EmptySpec
    /\ contents = InitialContents
    /\ timers = <<>>
    /\ modelCalls = 0
    /\ outcome = "running"
    /\ result = NoResult
    /\ error = NoError
    /\ sink \in SinkKinds
    /\ delivered = <<>>
    /\ uncaught = 0
    /\ session = 1
    /\ peer = NoPeer
    /\ view = NoView
    /\ probe = NoProbe

RunTimer_Propagates ==
    /\ pc \in {"await", "done"}
    /\ timers # <<>>
    /\ delivered' = Append(delivered, Head(timers))
    /\ timers' = Tail(timers)
    /\ IF sink = "throws" /\ pc = "await"
       THEN /\ pc' = "done"
            /\ outcome' = "error"
            /\ result' = Catch(<<"sink failed">>, accumulatedSpec)
            /\ error' = ErrorOf(<<"sink failed">>)
            /\ uncaught' = uncaught
       ELSE /\ UNCHANGED <<pc, outcome, result, error>>
            /\ uncaught' = uncaught
    /\ UNCHANGED <<client, iteration, toolCallCount, accumulatedSpec, contents, modelCalls>>
    /\ UNCHANGED <<sink, session, probe, peer, view>>

\* The host runs the oldest scheduled callback, which calls the sink.  Timer
\* tasks run only while no JavaScript is running: while the loop awaits
\* generateContent, or after it has returned.  An exception of the sink ends
\* the timer task and is reported to the host.
RunTimer ==
    /\ pc \in {"await", "done"}
    /\ timers # <<>>
    /\ delivered' = Append(delivered, Head(timers))
    /\ timers' = Tail(timers)
    /\ uncaught' = IF sink = "throws" THEN uncaught + 1 ELSE uncaught
    /\ UNCHANGED loopVars
    /\ UNCHANGED <<sink, session, probe, peer, view>>

EventNext == Next \/ RunTimer

EventSpec == EventInit /\ [][EventNext]_vars

----------------------------------------------------------------------------
(* The caller starts one session after the other *)

StartSession_KeepsOverlay ==
    /\ pc = "done"
    /\ timers = <<>>
    /\ session < MaxSessions
    /\ session' = session + 1
    /\ client' \in Clients
    /\ pc' = "loop"
    /\ iteration' = 0
    /\ toolCallCount' = 0
    /\ contents' = InitialContents
    /\ modelCalls' = 0
    /\ outcome' = "running"
    /\ result' = NoResult
    /\ error' = NoError
    /\ delivered' = <<>>
    /\ UNCHANGED <<accumulatedSpec, timers, sink, uncaught, probe, peer, view>>

\* The caller, having received the result of a session and with no callback
\* of it left to run, resets what its sink has collected and calls
\* analyzeMediaAgentic again: the function's locals are initialised anew.
StartSession ==
    /\ pc = "done"
    /\ timers = <<>>
    /\ session < MaxSessions
    /\ session' = session + 1
    /\ client' \in Clients
    /\ pc' = "loop"
    /\ iteration' = 0
    /\ toolCallCount' = 0
    /\ accumulatedSpec' = EmptySpec
    /\ contents' = InitialContents
    /\ modelCalls' = 0
    /\ outcome' = "running"
    /\ result' = NoResult
    /\ error' = NoError
    /\ delivered' = <<>>
    /\ UNCHANGED <<timers, sink, uncaught, probe, peer, view>>

SessionNext == Next \/ RunTimer \/ StartSession

SessionSpec == Init /\ [][SessionNext]_vars

----------------------------------------------------------------------------
(* Two calls of analyzeMediaAgentic in progress at once *)

ScriptOf(k, way) == [upto |-> k, then |-> way]

\* The clients of two sessions that run at once: each follows a script.
PairClients ==
    { [tool |-> LineKind, noTool |-> [say |-> "text", size |-> 2], script |-> ScriptOf(5, "noTool")],
      [tool |-> [call |-> "path", size |-> 1], noTool |-> DoneKind, script |-> ScriptOf(2, "noTool")],
      [tool |-> [call |-> "textcall", size |-> 1], noTool |-> DoneKind, script |-> ScriptOf(1, "fail")],
      [tool |-> [call |-> "badzone", size |-> 1], noTool |-> DoneKind, script |-> ScriptOf(1, "noContent")],
      [tool |-> [call |-> "numfield", size |-> 1], noTool |-> DoneKind, script |-> ScriptOf(1, "noTool")],
      [tool |-> [call |-> "wrongname", size |-> 1], noTool |-> DoneKind, script |-> ScriptOf(5, "noTool")],
      [tool |-> [call |-> "full", size |-> MaxDelta], noTool |-> DoneKind,
       script |-> ScriptOf(MAX_ITERATIONS, "tool")] }

\* The locals of a call of analyzeMediaAgentic on its first line.
NewLocals(c, n) ==
    [id |-> n, client |-> c, pc |-> "loop", iteration |-> 0, toolCallCount |-> 0,
     accumulatedSpec |-> EmptySpec, contents |-> InitialContents, timers |-> <<>>,
     modelCalls |-> 0, outcome |-> "running", result |-> NoResult, error |-> NoError]

\* The locals of the call whose code the loop's actions run.
Locals(n) ==
    [id |-> n, client |-> client, pc |-> pc, iteration |-> iteration,
     toolCallCount |-> toolCallCount, accumulatedSpec |-> accumulatedSpec,
     contents |-> contents, timers |-> timers, modelCalls |-> modelCalls,
     outcome |-> outcome, result |-> result, error |-> error]

PairInit ==
    /\ client \in PairClients
    /\ pc = "loop"
    /\ iteration = 0
    /\ toolCallCount = 0
    /\ accumulatedSpec = EmptySpec
    /\ contents = InitialContents
    /\ timers = <<>>
    /\ modelCalls = 0
    /\ outcome = "running"
    /\ result = NoResult
    /\ error = NoError
    /\ sink = "ok"
    /\ delivered = <<>>
    /\ uncaught = 0
    /\ session = 1
    /\ probe = NoProbe
    /\ view = NoView
    /\ \E c \in PairClients : peer = NewLocals(c, 2)

Switch_SharedOverlay ==
    /\ pc \in {"await", "done"}
    /\ "pc" \in DOMAIN peer
    /\ peer.pc # "done"
    /\ peer' = Locals(3 - peer.id)
    /\ client' = peer.client
    /\ pc' = peer.pc
    /\ iteration' = peer.iteration
    /\ toolCallCount' = peer.toolCallCount
    /\ contents' = peer.contents
    /\ timers' = peer.timers
    /\ modelCalls' = peer.modelCalls
    /\ outcome' = peer.outcome
    /\ result' = peer.result
    /\ error' = peer.error
    /\ UNCHANGED accumulatedSpec
    /\ UNCHANGED <<sink, delivered, uncaught, session, probe, view>>

\* The call that was running awaits generateContent or has returned, and the
\* host resumes the other call, whose reply has arrived (or which starts):
\* from here on the loop's code runs with the other call's locals.  The
\* callbacks a call has scheduled are kept with the call.
Switch ==
    /\ pc \in {"await", "done"}
    /\ "pc" \in DOMAIN peer
    /\ peer.pc # "done"
    /\ peer' = Locals(3 - peer.id)
    /\ client' = peer.client
    /\ pc' = peer.pc
    /\ iteration' = peer.iteration
    /\ toolCallCount' = peer.toolCallCount
    /\ accumulatedSpec' = peer.accumulatedSpec
    /\ contents' = peer.contents
    /\ timers' = peer.timers
    /\ modelCalls' = peer.modelCalls
    /\ outcome' = peer.outcome
    /\ result' = peer.result
    /\ error' = peer.error
    /\ UNCHANGED <<sink, delivered, uncaught, session, probe, view>>

PairNext == Next \/ Switch

PairSpec == PairInit /\ [][PairNext]_vars

----------------------------------------------------------------------------
(* mergeOverlayData called on documents *)

\* The i-th element of kind f, tagged n.
ElemOf(f, n, i) ==
    CASE f = "attackLines" -> LineOf(n, i)
      [] f = "defenseLines" -> LineOf(n, i)
      [] f = "movementPaths" -> PathOf(n, i)
      [] f = "zones" -> ZoneOf(n, i, 3)
      [] f = "annotations" -> NoteOf(n, i)

\* k elements of kind f, tagged n.
ElemsOf(f, n, k) == [i \in 1..k |-> ElemOf(f, n, i)]

\* Accumulated documents: one sequence filled, or all five filled alike, or
\* the sequences missing.
BaseDocs ==
    {[EmptySpec EXCEPT ![f] = Arr(ElemsOf(f, 1, k))] :
        f \in OverlayFields, k \in 0..MaxDelta}
    \cup {[f \in DOMAIN EmptySpec |->
             IF f \in OverlayFields THEN Arr(ElemsOf(f, 1, k)) ELSE EmptySpec[f]] :
          k \in 1..MaxDelta}
    \cup {[type |-> Str(<<"play_diagram">>), title |-> Str(<<"Analysis">>)]}

\* Deltas: one field present, or all five present.
DeltaDocs ==
    {[g \in {f} |-> Arr(ElemsOf(f, 2, k))] : f \in OverlayFields, k \in 0..MaxDelta}
    \cup {[f \in OverlayFields |-> Arr(ElemsOf(f, 2, k))] : k \in 0..MaxDelta}

MergeInit ==
    /\ client = [tool |-> LineKind, noTool |-> DoneKind]
    /\ pc = "idle"
    /\ iteration = 0
    /\ toolCallCount = 0
    /\ accumulatedSpec = EmptySpec
    /\ contents = InitialContents
    /\ timers = <<>>
    /\ modelCalls = 0
    /\ outcome = "running"
    /\ result = NoResult
    /\ error = NoError
    /\ sink = "ok"
    /\ delivered = <<>>
    /\ uncaught = 0
    /\ session = 1
    /\ peer = NoPeer
    /\ view = NoView
    /\ \E base \in BaseDocs, delta \in DeltaDocs :
          probe = [base |-> base, delta |-> delta]

\* mergeOverlayData(base, delta) returns.
MergeApply ==
    /\ "base" \in DOMAIN probe
    /\ "out" \notin DOMAIN probe
    /\ ~MergeThrows(probe.base, probe.delta)
    /\ probe' = [base |-> probe.base, delta |-> probe.delta,
                 out |-> mergeOverlayData(probe.base, probe.delta)]
    /\ UNCHANGED loopVars
    /\ UNCHANGED <<timers, sink, delivered, uncaught, session, peer, view>>

MergeNext == MergeApply

MergeSpec == MergeInit /\ [][MergeNext]_vars

----------------------------------------------------------------------------
(* mergeOverlayData nested and called with the empty document *)

\* Deltas whose elements are tagged n: one field present, or all five present.
DeltaDocsOf(n) ==
    {[g \in {f} |-> Arr(ElemsOf(f, n, k))] : f \in OverlayFields, k \in 0..MaxDelta}
    \cup {[f \in OverlayFields |-> Arr(ElemsOf(f, n, k))] : k \in 0..MaxDelta}

LawInit ==
    /\ client = [tool |-> LineKind, noTool |-> DoneKind]
    /\ pc = "idle"
    /\ iteration = 0
    /\ toolCallCount = 0
    /\ accumulatedSpec = EmptySpec
    /\ contents = InitialContents
    /\ timers = <<>>
    /\ modelCalls = 0
    /\ outcome = "running"
    /\ result = NoResult
    /\ error = NoError
    /\ sink = "ok"
    /\ delivered = <<>>
    /\ uncaught = 0
    /\ session = 1
    /\ peer = NoPeer
    /\ view = NoView
    /\ \E a \in BaseDocs, b \in DeltaDocsOf(2), c \in DeltaDocsOf(3) :
          probe = [a |-> a, b |-> b, c |-> c]

\* probe with the field k set to v.
WithField(k, v) == [g \in DOMAIN probe \cup {k} |-> IF g = k THEN v ELSE probe[g]]

\* mergeOverlayData(mergeOverlayData(a, b), c) returns.
MergeLeftFirst ==
    /\ "a" \in DOMAIN probe
    /\ "left" \notin DOMAIN probe
    /\ probe' = WithField("left", mergeOverlayData(mergeOverlayData(probe.a, probe.b), probe.c))
    /\ UNCHANGED loopVars
    /\ UNCHANGED <<timers, sink, delivered, uncaught, session, peer, view>>

\* mergeOverlayData(a, mergeOverlayData(b, c)) returns.
MergeRightFirst ==
    /\ "left" \in DOMAIN probe
    /\ "right" \notin DOMAIN probe
    /\ probe' = WithField("right", mergeOverlayData(probe.a, mergeOverlayData(probe.b, probe.c)))
    /\ UNCHANGED loopVars
    /\ UNCHANGED <<timers, sink, delivered, uncaught, session, peer, view>>

\* mergeOverlayData(a, empty) returns, empty being the document a session starts with.
MergeEmptyDelta ==
    /\ "right" \in DOMAIN probe
    /\ "onto" \notin DOMAIN probe
    /\ probe' = WithField("onto", mergeOverlayData(probe.a, EmptySpec))
    /\ UNCHANGED loopVars
    /\ UNCHANGED <<timers, sink, delivered, uncaught, session, peer, view>>

\* mergeOverlayData(empty, a) returns.
MergeEmptyBase ==
    /\ "onto" \in DOMAIN probe
    /\ "under" \notin DOMAIN probe
    /\ probe' = WithField("under", mergeOverlayData(EmptySpec, probe.a))
    /\ UNCHANGED loopVars
    /\ UNCHANGED <<timers, sink, delivered, uncaught, session, peer, view>>

LawNext == MergeLeftFirst \/ MergeRightFirst \/ MergeEmptyDelta \/ MergeEmptyBase

LawSpec == LawInit /\ [][LawNext]_vars

----------------------------------------------------------------------------
(* parseVisualizations: the reply text of the single-shot mode *)

\* A reply text is a sequence of tokens: a word, a newline, or a fenced code
\* block with its language tag and its body.  A body either is the text of a
\* JSON value or is not.
Word == [word |-> "Flare"]

Newline == [nl |-> TRUE]

Fenced(tag, body) == [fence |-> tag, body |-> body]

JsonText(value) == [json |-> value]

Tokens ==
    { Word, Newline,
      Fenced("visualization", JsonText([type |-> "play_diagram", title |-> "Horns"])),
      Fenced("visualization", JsonText([type |-> "play_diagram", title |-> "Flex"])),
      Fenced("visualization", JsonText([type |-> "heat_map", title |-> "Shots"])),
      Fenced("visualization", JsonText([title |-> "Untyped"])),
      Fenced("visualization", [raw |-> "{type: play_diagram"]),
      Fenced("json", JsonText([type |-> "play_diagram", title |-> "Spain"])) }

RECURSIVE TextsOfLength(_)
TextsOfLength(k) ==
    IF k = 0
    THEN {<<>>}
    ELSE {Append(t, tok) : t \in TextsOfLength(k - 1), tok \in Tokens}

Texts == UNION {TextsOfLength(k) : k \in 0..MaxTokens}

\* The token is a match of /```visualization\s*([\s\S]*?)```/g.
IsVisualizationBlock(tok) == "fence" \in DOMAIN tok /\ tok.fence = "visualization"

\* JSON.parse(jsonContent) returns.
Decodes(tok) == "json" \in DOMAIN tok.body

\* spec.type
HasKnownType_AnyType(value) == "type" \in DOMAIN value

\* spec.type && ['play_diagram'].includes(spec.type)
HasKnownType(value) == "type" \in DOMAIN value /\ value.type \in {"play_diagram"}

RECURSIVE CollectVisualizations(_)
\* The while loop over the matches.
CollectVisualizations(text) ==
    IF text = <<>>
    THEN <<>>
    ELSE (IF /\ IsVisualizationBlock(Head(text))
             /\ Decodes(Head(text))
             /\ HasKnownType(Head(text).body.json)
          THEN <<Head(text).body.json>>
          ELSE <<>>)
         \o CollectVisualizations(Tail(text))

\* text.replace(visualizationRegex, '')
ReplaceMatches(text) ==
    LET Kept(tok) == ~IsVisualizationBlock(tok) IN
    SelectSeq(text, Kept)

IsSpace(tok) == "nl" \in DOMAIN tok

RECURSIVE TrimStart(_)
TrimStart(text) ==
    IF text # <<>> /\ IsSpace(Head(text)) THEN TrimStart(Tail(text)) ELSE text

RECURSIVE TrimEnd(_)
TrimEnd(text) ==
    IF text # <<>> /\ IsSpace(text[Len(text)])
    THEN TrimEnd(SubSeq(text, 1, Len(text) - 1))
    ELSE text

\* String.prototype.trim
Trim(text) == TrimEnd(TrimStart(text))

RECURSIVE CollapseNewlines(_)
\* cleanText.replace(/\n{3,}/g, '\n\n')
CollapseNewlines(text) ==
    IF text = <<>>
    THEN <<>>
    ELSE IF Len(text) >= 3 /\ \A i \in 1..3 : IsSpace(text[i])
         THEN <<Newline, Newline>> \o CollapseNewlines(TrimStart(text))
         ELSE <<Head(text)>> \o CollapseNewlines(Tail(text))

parseVisualizations(text) ==
    [cleanText |-> CollapseNewlines(Trim(ReplaceMatches(text))),
     visualizations |-> CollectVisualizations(text)]

ParseInit ==
    /\ client = [tool |-> LineKind, noTool |-> DoneKind]
    /\ pc = "idle"
    /\ iteration = 0
    /\ toolCallCount = 0
    /\ accumulatedSpec = EmptySpec
    /\ contents = InitialContents
    /\ timers = <<>>
    /\ modelCalls = 0
    /\ outcome = "running"
    /\ result = NoResult
    /\ error = NoError
    /\ sink = "ok"
    /\ delivered = <<>>
    /\ uncaught = 0
    /\ session = 1
    /\ peer = NoPeer
    /\ view = NoView
    /\ \E text \in Texts : probe = [text |-> text]

\* parseVisualizations(text) returns.
ParseApply ==
    /\ "text" \in DOMAIN probe
    /\ "parsed" \notin DOMAIN probe
    /\ probe' = [text |-> probe.text, parsed |-> parseVisualizations(probe.text)]
    /\ UNCHANGED loopVars
    /\ UNCHANGED <<timers, sink, delivered, uncaught, session, peer, view>>

ParseNext == ParseApply

ParseSpec == ParseInit /\ [][ParseNext]_vars

----------------------------------------------------------------------------
(* analyzeMedia: the single-shot mode *)

\* The text parts of a reply with the text t: one part, or two when t has
\* two tokens or more.
SingleParts(t) ==
    IF Len(t) < 2
    THEN <<[text |-> t]>>
    ELSE <<[text |-> SubSeq(t, 1, Len(t) \div 2)],
           [text |-> SubSeq(t, Len(t) \div 2 + 1, Len(t))]>>

\* The responses generateContent can resolve to.
SingleResponses ==
    {[candidates |-> <<[content |-> [parts |-> SingleParts(t)]]>>] : t \in Texts}
    \cup { [candidates |-> <<[finishReason |-> "SAFETY"]>>],
           [candidates |-> <<>>],
           [promptFeedback |-> "blocked"] }

\* The text of a JSON body the provider embeds in an error message, as tokens.
KeyInvalidBody ==
    <<"{", "\"error\":{\"message\":\"", "API key not valid. Please pass a valid API key.",
      "\",\"status\":\"", "API_KEY", "_INVALID\"}", "}">>

QuotaBody == <<"{", "\"error\":{\"message\":\"", "Resource exhausted", "\"}", "}">>

CodeBody == <<"{", "\"code\":5", "}">>

BrokenBody == <<"{", "error:", "}">>

\* The messages of the errors generateContent can reject with.
SingleErrors ==
    { <<"quota exceeded">>,
      <<>>,
      <<"API_KEY", " is not set">>,
      <<"got status: 400. ">> \o KeyInvalidBody,
      <<"API_KEY", " rejected: ">> \o QuotaBody,
      <<"got status: 429. ">> \o QuotaBody,
      <<"got status: 500. ">> \o CodeBody,
      <<"got status: 502. ">> \o BrokenBody \o <<" from proxy">> }

SingleInit ==
    /\ client = [tool |-> LineKind, noTool |-> DoneKind]
    /\ pc = "idle"
    /\ iteration = 0
    /\ toolCallCount = 0
    /\ accumulatedSpec = EmptySpec
    /\ contents = InitialContents
    /\ timers = <<>>
    /\ modelCalls = 0
    /\ outcome = "running"
    /\ result = NoResult
    /\ error = NoError
    /\ sink = "ok"
    /\ delivered = <<>>
    /\ uncaught = 0
    /\ session = 1
    /\ peer = NoPeer
    /\ view = NoView
    /\ \/ \E response \in SingleResponses : probe = [response |-> response]
       \/ \E msg \in SingleErrors : probe = [rejected |-> msg]

\* response.candidates[0] is read although the array is empty.
SingleThrows(response) ==
    "candidates" \in DOMAIN response /\ response.candidates = <<>>

\* finalText of analyzeMedia.
SingleFinalText(response) ==
    IF /\ "candidates" \in DOMAIN response
       /\ "content" \in DOMAIN response.candidates[1]
       /\ "parts" \in DOMAIN response.candidates[1].content
    THEN ConcatText(response.candidates[1].content.parts)
    ELSE <<>>

FallbackText == <<[word |-> "I analyzed the media but couldn't generate a text response."]>>

\* The return statement of the try block.
SingleResult(finalText) ==
    LET parsed == parseVisualizations(finalText)
        text == IF parsed.cleanText # <<>> THEN parsed.cleanText ELSE FallbackText
    IN IF Len(parsed.visualizations) > 0
       THEN [text |-> text, visualizations |-> parsed.visualizations]
       ELSE [text |-> text]

\* generateContent resolves and analyzeMedia returns from its try block.
AnalyzeMediaReturns ==
    /\ "response" \in DOMAIN probe
    /\ "out" \notin DOMAIN probe
    /\ ~SingleThrows(probe.response)
    /\ probe' = [response |-> probe.response,
                 out |-> SingleResult(SingleFinalText(probe.response))]
    /\ UNCHANGED loopVars
    /\ UNCHANGED <<timers, sink, delivered, uncaught, session, peer, view>>

\* The indices of the tokens of msg equal to tok.
IndicesOf(msg, tok) == {i \in 1..Len(msg) : msg[i] = tok}

Least(S) == CHOOSE i \in S : \A j \in S : i <= j

Greatest(S) == CHOOSE i \in S : \A j \in S : j <= i

\* error.message.match(/\{.*\}/) finds a match.
HasBraceMatch(msg) ==
    /\ IndicesOf(msg, "{") # {}
    /\ \E j \in IndicesOf(msg, "}") : j > Least(IndicesOf(msg, "{"))

\* jsonMatch[0]: from the first opening brace to the last closing brace.
BraceMatch(msg) ==
    SubSeq(msg, Least(IndicesOf(msg, "{")), Greatest(IndicesOf(msg, "}")))

\* JSON.parse(jsonMatch[0]) returns.
ParsesAsJson(body) == body \in {KeyInvalidBody, QuotaBody, CodeBody}

\* The value JSON.parse returns.
JsonParse(body) ==
    CASE body = KeyInvalidBody ->
            [error |-> [message |-> <<"API key not valid. Please pass a valid API key.">>,
                        status |-> <<"API_KEY", "_INVALID">>]]
      [] body = QuotaBody -> [error |-> [message |-> <<"Resource exhausted">>]]
      [] body = CodeBody -> [code |-> 5]

\* parsed.error?.message is truthy.
HasErrorMessage(parsed) ==
    /\ "error" \in DOMAIN parsed
    /\ "message" \in DOMAIN parsed.error
    /\ parsed.error.message # <<>>

\* The JSON body of the message overrides the text chosen before it.
OverriddenByBody(msg) ==
    /\ HasBraceMatch(msg)
    /\ ParsesAsJson(BraceMatch(msg))
    /\ HasErrorMessage(JsonParse(BraceMatch(msg)))

\* errorMessage at the end of the catch block of analyzeMedia.
SingleErrorText(msg) ==
    IF OverriddenByBody(msg)
    THEN <<"Analysis failed: ">> \o JsonParse(BraceMatch(msg)).error.message
    ELSE ErrorText(msg)

\* What the catch block of analyzeMedia catches: the rejection of
\* generateContent, or the TypeError of reading candidates[0].content.
CaughtMessage ==
    IF "rejected" \in DOMAIN probe
    THEN probe.rejected
    ELSE <<"Cannot read properties of undefined (reading 'content')">>

\* The catch block of analyzeMedia returns.
AnalyzeMediaCatches ==
    /\ "out" \notin DOMAIN probe
    /\ \/ "rejected" \in DOMAIN probe
       \/ "response" \in DOMAIN probe /\ SingleThrows(probe.response)
    /\ probe' = WithField("out", [text |-> SingleErrorText(CaughtMessage)])
    /\ UNCHANGED loopVars
    /\ UNCHANGED <<timers, sink, delivered, uncaught, session, peer, view>>

SingleNext == AnalyzeMediaReturns \/ AnalyzeMediaCatches

SingleSpec == SingleInit /\ [][SingleNext]_vars

----------------------------------------------------------------------------
(* AnalysisView: the component that starts sessions and is their sink *)

\* The clients of the sessions a view starts: each follows a script.
ViewClients ==
    {c \in PairClients : c.script.upto <= MIN_ITERATIONS}
    \cup { [tool |-> [call |-> "strfield", size |-> 1], noTool |-> DoneKind,
            script |-> ScriptOf(1, "fail")],
           [tool |-> [call |-> "nooverlay", size |-> 1], noTool |-> DoneKind,
            script |-> ScriptOf(1, "noContent")] }

\* The client variable before the first session has chosen one.
NoClient == [tool |-> LineKind, noTool |-> DoneKind]

\* The state of a freshly mounted view.  enteredBy, sessionOf, received and
\* mergedFrom record how handleAnalyze was entered last, which session each
\* call of analyzeMediaAgentic belongs to, for which sessions handleAnalyze
\* has got the result, and from which sessions the overlay has taken
\* elements since its last reset.
MountedView(autoAnalyze) ==
    [mounted |-> TRUE,
     isAnalyzing |-> FALSE,
     analysis |-> NoResult,
     accumulatedOverlay |-> EmptySpec,
     thinkingSteps |-> <<>>,
     autoTimer |-> autoAnalyze,
     enteredBy |-> "none",
     crashed |-> FALSE,
     sessionOf |-> <<0, 0>>,
     received |-> {},
     mergedFrom |-> {}]

\* The view is mounted and no session has been started; the effect of lines
\* 167-184 has armed its timer when media.autoAnalyze is set.
ViewInit ==
    /\ client = NoClient
    /\ pc = "idle"
    /\ iteration = 0
    /\ toolCallCount = 0
    /\ accumulatedSpec = EmptySpec
    /\ contents = InitialContents
    /\ timers = <<>>
    /\ modelCalls = 0
    /\ outcome = "running"
    /\ result = NoResult
    /\ error = NoError
    /\ sink = "ok"
    /\ delivered = <<>>
    /\ uncaught = 0
    /\ session = 0
    /\ probe = NoProbe
    /\ peer = NoPeer
    /\ \E autoAnalyze \in BOOLEAN : view = MountedView(autoAnalyze)

\* Which of the two calls of analyzeMediaAgentic the loop variables hold.
Running == IF "id" \in DOMAIN peer THEN 3 - peer.id ELSE 1

\* analyzeMediaAgentic has returned and the continuation of handleAnalyze,
\* a microtask, has not run yet: it runs before any timer or input event.
ResultPending == pc = "done" /\ view.sessionOf[Running] \notin view.received

\* The locals of the call can be dropped: it never ran, or it has returned
\* and every callback it scheduled has run.
Finished(locals) ==
    IF "pc" \in DOMAIN locals
    THEN locals.pc = "idle" \/ (locals.pc = "done" /\ locals.timers = <<>>)
    ELSE TRUE

\* [...steps].slice(-n)
LastN(steps, n) ==
    IF Len(steps) <= n THEN steps ELSE SubSeq(steps, Len(steps) - n + 1, Len(steps))

\* The overlay's fields are replaced by those of the event.
mergeOverlayIntoSpec_Replace(current, overlay) ==
    [f \in DOMAIN current \cup OverlayFields |->
        IF f \in OverlayFields
        THEN Arr(Spread(OrEmpty(overlay, f)))
        ELSE current[f]]

mergeOverlayIntoSpec(current, overlay) ==
    [f \in DOMAIN current \cup OverlayFields |->
        IF f \in OverlayFields
        THEN Arr(Spread(OrEmpty(current, f)) \o Spread(OrEmpty(overlay, f)))
        ELSE current[f]]

\* The view after handleAgentEvent(event) and the state updates it queues,
\* for an event scheduled by the call of session `from`.  A spread that
\* throws inside the updater takes the component down.
handleAgentEvent(event, from) ==
    IF event.type # "tool_call"
    THEN view
    ELSE LET merged ==
                 IF "overlay" \notin DOMAIN event.args
                 THEN view
                 ELSE IF MergeThrows(view.accumulatedOverlay, event.args.overlay)
                      THEN [view EXCEPT !.crashed = TRUE]
                      ELSE [view EXCEPT
                               !.accumulatedOverlay =
                                   mergeOverlayIntoSpec(@, event.args.overlay),
                               !.mergedFrom = @ \cup {from}]
         IN IF "thinking" \in DOMAIN event.args /\ event.args.thinking # <<>>
            THEN [merged EXCEPT
                     !.thinkingSteps = LastN(Append(@, event.args.thinking), 20)]
            ELSE merged

\* handleAnalyze up to its await: the state is reset and onAnalyze calls
\* analyzeMediaAgentic, which starts with fresh locals.  A call that is
\* still awaiting, or has callbacks left to run, stays alive beside the new
\* one; the model keeps at most two calls alive.
handleAnalyze(path) ==
    /\ pc \in {"idle", "await", "done"}
    /\ ~ResultPending
    /\ session < MaxSessions
    /\ Finished(Locals(Running)) \/ Finished(peer)
    /\ session' = session + 1
    /\ client' \in ViewClients
    /\ pc' = "loop"
    /\ iteration' = 0
    /\ toolCallCount' = 0
    /\ accumulatedSpec' = EmptySpec
    /\ contents' = InitialContents
    /\ timers' = <<>>
    /\ modelCalls' = 0
    /\ outcome' = "running"
    /\ result' = NoResult
    /\ error' = NoError
    /\ IF Finished(Locals(Running))
       THEN /\ peer' = peer
            /\ view' = [view EXCEPT !.isAnalyzing = TRUE,
                                    !.analysis = NoResult,
                                    !.accumulatedOverlay = EmptySpec,
                                    !.thinkingSteps = <<>>,
                                    !.autoTimer = IF path = "timer" THEN FALSE ELSE @,
                                    !.enteredBy = path,
                                    !.mergedFrom = {},
                                    !.sessionOf[Running] = session + 1]
       ELSE /\ peer' = Locals(Running)
            /\ view' = [view EXCEPT !.isAnalyzing = TRUE,
                                    !.analysis = NoResult,
                                    !.accumulatedOverlay = EmptySpec,
                                    !.thinkingSteps = <<>>,
                                    !.autoTimer = IF path = "timer" THEN FALSE ELSE @,
                                    !.enteredBy = path,
                                    !.mergedFrom = {},
                                    !.sessionOf[3 - Running] = session + 1]
    /\ UNCHANGED <<sink, delivered, uncaught, probe>>

\* The Analyze button, which is disabled while isAnalyzing.
ClickAnalyze ==
    /\ ~view.isAnalyzing
    /\ handleAnalyze("button")

\* Cmd/Ctrl + Enter.
handleKeyDown ==
    /\ ~view.isAnalyzing
    /\ handleAnalyze("key")

\* The timer armed by the auto-analyze effect fires: its callback calls
\* handleAnalyze without looking at isAnalyzing.
AutoAnalyze ==
    /\ view.autoTimer
    /\ handleAnalyze("timer")

\* The rest of handleAnalyze: setAnalysis(result), then the finally block.
ReceiveResult ==
    /\ ResultPending
    /\ view' = [view EXCEPT !.analysis = result,
                            !.isAnalyzing = FALSE,
                            !.received = @ \cup {view.sessionOf[Running]}]
    /\ UNCHANGED loopVars
    /\ UNCHANGED <<timers, sink, delivered, uncaught, session, probe, peer>>

\* The host runs the oldest callback of the call the loop variables hold.
\* The view is the sink: what it has received is in its own state.
DeliverToView ==
    /\ pc \in {"await", "done"}
    /\ ~ResultPending
    /\ timers # <<>>
    /\ timers' = Tail(timers)
    /\ view' = handleAgentEvent(Head(timers), view.sessionOf[Running])
    /\ UNCHANGED loopVars
    /\ UNCHANGED <<sink, delivered, uncaught, session, probe, peer>>

\* The host runs the oldest callback of the other call.
DeliverPeerToView ==
    /\ pc \in {"await", "done"}
    /\ ~ResultPending
    /\ "timers" \in DOMAIN peer
    /\ peer.timers # <<>>
    /\ peer' = [peer EXCEPT !.timers = Tail(@)]
    /\ view' = handleAgentEvent(Head(peer.timers), view.sessionOf[peer.id])
    /\ UNCHANGED loopVars
    /\ UNCHANGED <<timers, sink, delivered, uncaught, session, probe>>

\* The host resumes the other call once handleAnalyze has taken the result.
ResumeOther ==
    /\ ~ResultPending
    /\ Switch

ViewNext ==
    \/ Next
    \/ ResumeOther
    \/ ClickAnalyze
    \/ handleKeyDown
    \/ AutoAnalyze
    \/ ReceiveResult
    \/ DeliverToView
    \/ DeliverPeerToView

ViewSpec == ViewInit /\ [][ViewNext]_vars

----------------------------------------------------------------------------
\* The loop's code runs until it awaits or returns, and every Model Client
\* call is assumed to return or fail.
FairSpec == Spec /\ WF_vars(Next)

----------------------------------------------------------------------------
(* Properties *)

IsModelTurn(turn) == turn.role = "model"

\* The model's turns of the transcript, in order.
ModelTurnsOf(transcript) == SelectSeq(transcript, IsModelTurn)

MaxIterationsText == <<"Analysis reached maximum iterations.">>

HasOverlay(r) == "visualizations" \in DOMAIN r

\* The sequence f of the overlay a result carries.
ResultSeq(r, f) == r.visualizations[1][f].array

\* The step receives a model turn that has no tool call.
ReceivesTurnWithoutCall ==
    /\ pc = "await"
    /\ Len(contents') > Len(contents)
    /\ ~HasFunctionCall(contents'[Len(contents) + 1].parts)

\* C1: the normal completion return happens only on a model turn without a
\* tool call received at toolCallCount >= 5, with the turn's text or
\* 'Analysis complete.' as result text; a model turn without a tool call
\* received at toolCallCount < 5 appends the forced-continuation user turn
\* and the loop continues without returning.
C1_MinimumCallEnforcement ==
    [][ /\ (outcome' = "completed" /\ outcome # "completed")
            => /\ ReceivesTurnWithoutCall
               /\ toolCallCount >= 5
               /\ toolCallCount' = toolCallCount
               /\ result'.text \in {ConcatText(contents'[Len(contents) + 1].parts),
                                    <<"Analysis complete.">>}
        /\ (ReceivesTurnWithoutCall /\ toolCallCount < 5)
            => /\ Len(contents') = Len(contents) + 2
               /\ contents'[Len(contents) + 2].role = "user"
               /\ contents'[Len(contents) + 2].parts =
                     <<[text |-> ForceMessage(toolCallCount)]>>
               /\ pc' = "loop"
               /\ result' = NoResult
               /\ outcome' = "running" ]_vars

\* A session that was forced to continue at least once and then completed.
C1_Witness ==
    /\ outcome = "completed"
    /\ \E i \in 1..Len(contents) : \E k \in 0..4 : contents[i] = ForceTurn(k)

\* The model turns of the scripted session of C2: five one-line show_overlay
\* calls, then the text 'Done.'.
FiveLinesThenDone ==
    [i \in 1..6 |-> IF i <= 5
                    THEN ModelTurn(ToolParts(LineKind, i))
                    ELSE ModelTurn(<<[text |-> <<"Done.">>]>>)]

\* C2: when the model emits a one-line show_overlay call on turns 1 to 5 and
\* the text 'Done.' on turn 6, the session has ended after 6 model calls with
\* toolCallCount = 5, text 'Done.' and an overlay whose line segments are the
\* five segments in call order.
C2_FiveCallsThenDone ==
    ModelTurnsOf(contents) = FiveLinesThenDone
        => /\ pc = "done"
           /\ modelCalls = 6
           /\ toolCallCount = 5
           /\ result.text = <<"Done.">>
           /\ HasOverlay(result)
           /\ ResultSeq(result, "attackLines") = [i \in 1..5 |-> LineOf(i, 1)]
           /\ ResultSeq(result, "defenseLines") = <<>>

C2_Witness ==
    /\ ModelTurnsOf(contents) = FiveLinesThenDone
    /\ pc = "done"

\* The delta a model turn carries in field f, when the turn is a show_overlay
\* call whose overlay has an array in that field.
DeltaOf(turn, f) ==
    LET fc == FindFunctionCall(turn.parts) IN
    IF /\ HasFunctionCall(turn.parts)
       /\ IsShowOverlay(fc)
       /\ "overlay" \in DOMAIN fc.args
       /\ f \in DOMAIN fc.args.overlay
       /\ "array" \in DOMAIN fc.args.overlay[f]
    THEN fc.args.overlay[f].array
    ELSE <<>>

RECURSIVE DeltasInOrder(_, _)
\* The deltas of the turns in field f, one after the other in call order.
DeltasInOrder(turns, f) ==
    IF turns = <<>> THEN <<>>
    ELSE DeltaOf(Head(turns), f) \o DeltasInOrder(Tail(turns), f)

\* Every overlay field a turn's show_overlay call carries is an array.
WellTypedCall(turn) ==
    /\ HasFunctionCall(turn.parts)
    /\ LET fc == FindFunctionCall(turn.parts) IN
          /\ IsShowOverlay(fc)
          /\ "overlay" \in DOMAIN fc.args
             => \A f \in DOMAIN fc.args.overlay : "array" \in DOMAIN fc.args.overlay[f]

\* The model has emitted a show_overlay call on each of ten turns.
TenToolCalls ==
    /\ Len(ModelTurnsOf(contents)) = 10
    /\ \A i \in 1..10 : WellTypedCall(ModelTurnsOf(contents)[i])

\* C3: when the model emits a tool call on every turn, the loop makes exactly
\* 10 model calls and no more, and returns 'Analysis reached maximum
\* iterations.' with the overlay that merges the 10 deltas in call order.
C3_MaxIterationFallback ==
    TenToolCalls
        => /\ modelCalls = 10
           /\ pc \in {"loop", "done"}
           /\ pc = "done"
                => /\ result.text = MaxIterationsText
                   /\ HasOverlay(result)
                   /\ \A f \in OverlayFields :
                         ResultSeq(result, f) = DeltasInOrder(ModelTurnsOf(contents), f)

C3_Witness ==
    /\ TenToolCalls
    /\ pc = "done"
    /\ Len(ResultSeq(result, "attackLines")) = 10

\* C4: the number of Model Client calls never exceeds maxIterations (10).
C4_ModelCallsBounded == modelCalls <= 10

\* The tenth call has been made in a session that mixed tool calls and early
\* finish attempts.
C4_Witness ==
    /\ modelCalls = 10
    /\ pc = "await"
    /\ toolCallCount \in 1..8

\* C5: every session eventually reaches a terminal outcome and returns a
\* result with a text to the caller.
C5_SessionTerminates == <>(pc = "done" /\ "text" \in DOMAIN result)

\* A session that has returned after the maximum number of iterations.
C5_Witness ==
    /\ pc = "done"
    /\ outcome = "maxIterations"
    /\ "text" \in DOMAIN result

IsAcknowledgement(turn) ==
    /\ Len(turn.parts) > 0
    /\ "functionResponse" \in DOMAIN turn.parts[1]

\* C6: in every transcript sent to the model, each model turn with a tool
\* invocation is immediately followed by its tool-result acknowledgement turn.
C6_EveryCallAcknowledged ==
    pc = "await"
        => \A i \in 1..Len(contents) :
              (IsModelTurn(contents[i]) /\ HasFunctionCall(contents[i].parts))
                  => /\ i < Len(contents)
                     /\ IsAcknowledgement(contents[i + 1])

\* At least one of the five sequences of the document is non-empty.
hasVisibleContent(doc) == \E f \in OverlayFields : Len(doc[f].array) > 0

\* C7: on the normal completion path the result carries the accumulated
\* overlay if and only if at least one of its five sequences is non-empty.
C7_CompletionOverlayIffVisible ==
    outcome = "completed"
        => /\ HasOverlay(result) <=> hasVisibleContent(accumulatedSpec)
           /\ HasOverlay(result) => result.visualizations = <<accumulatedSpec>>

\* C8: a result with the maximum-iterations text always carries the
\* accumulated overlay, even when all five sequences are empty; a normal
\* completion with all five sequences empty carries no overlay.
C8_OverlayPresenceAsymmetry ==
    /\ (pc = "done" /\ result.text = MaxIterationsText)
          => /\ HasOverlay(result)
             /\ result.visualizations = <<accumulatedSpec>>
    /\ (outcome = "completed" /\ ~hasVisibleContent(accumulatedSpec))
          => ~HasOverlay(result)

\* Ten forced continuations, no tool call, and the empty overlay handed out.
C8_Witness ==
    /\ outcome = "maxIterations"
    /\ toolCallCount = 0
    /\ modelCalls = 10
    /\ HasOverlay(result)
    /\ ~hasVisibleContent(result.visualizations[1])

\* The delta of the last model turn has a zone with fewer than 3 points, and
\* the turn has been acknowledged.
MalformedZoneProcessed ==
    /\ Len(contents) > 2
    /\ IsAcknowledgement(contents[Len(contents)])
    /\ \E i \in 1..Len(DeltaOf(contents[Len(contents) - 1], "zones")) :
          Len(DeltaOf(contents[Len(contents) - 1], "zones")[i].points) < 3

\* The elements of a sequence.
Elements(seq) == {seq[i] : i \in 1..Len(seq)}

\* C9: after a tool call whose delta has a zone with fewer than 3 points is
\* processed, the session goes on, the accumulated zones hold no zone with
\* fewer than 3 points, and the other elements of the call are accumulated.
C9_MalformedZoneOmitted ==
    MalformedZoneProcessed
        => /\ pc = "loop"
           /\ \A z \in Elements(accumulatedSpec.zones.array) : Len(z.points) >= 3
           /\ \A f \in OverlayFields \ {"zones"} :
                 Elements(DeltaOf(contents[Len(contents) - 1], f))
                     \subseteq Elements(accumulatedSpec[f].array)

\* C10: a tool invocation whose payload fails validation never aborts the
\* session: no session ends with an error result while handling a model turn
\* it has received (an error result comes only from a failed Model Client call,
\* which adds no model turn to the transcript).
C10_InvalidPayloadNeverAborts ==
    outcome = "error" => Len(ModelTurnsOf(contents)) < modelCalls

\* The step is a failure: generateContent rejects, or a step of the
\* iteration throws after the model's turn was received.
FailureStep == outcome' = "error" /\ outcome # "error"

\* C11: the caller always receives a result and never an exception: every
\* step that leaves the awaited model call either goes on with the loop or
\* returns a result with a text, and a failure of the call or of a step of the
\* iteration returns a result whose text is the error message.
C11_FailureBecomesResult ==
    [][ /\ (pc = "await" /\ pc' # "await")
            => \/ pc' = "loop" /\ result' = NoResult
               \/ pc' = "done" /\ "text" \in DOMAIN result' /\ result'.text # <<>>
        /\ FailureStep
            => /\ pc' = "done"
               /\ \/ result'.text[1] = "Analysis failed: "
                  \/ result'.text =
                       <<"Error: API Key is missing or invalid. Please check your configuration.">> ]_vars

\* A Model Client call has failed after tool calls were handled, and the
\* caller has the result.
C11_Witness ==
    /\ pc = "done"
    /\ outcome = "error"
    /\ toolCallCount >= 2
    /\ Len(ModelTurnsOf(contents)) < modelCalls
    /\ "text" \in DOMAIN result

\* C12: when the Model Client call fails, the result carries the accumulated
\* overlay whenever any of its five sequences is non-empty.
C12_FailureKeepsOverlay ==
    (outcome = "error" /\ Len(ModelTurnsOf(contents)) < modelCalls
        /\ hasVisibleContent(accumulatedSpec))
        => /\ HasOverlay(result)
           /\ result.visualizations = <<accumulatedSpec>>

IsToolCallEvent(event) == event.type = "tool_call"

IsCompletionEvent(event) == event.type = "completion"

HasCall(turn) == HasFunctionCall(turn.parts)

\* C13: once the session has ended and every scheduled callback has run, the
\* Progress Sink has received one tool_call event per tool invocation the loop
\* counted, in call order, each with the arguments of its invocation.
C13_OneEventPerToolCall ==
    (pc = "done" /\ timers = <<>>)
        => LET events == SelectSeq(delivered, IsToolCallEvent)
               calls == SelectSeq(ModelTurnsOf(contents), HasCall)
           IN /\ Len(events) = toolCallCount
              /\ \A i \in 1..Len(events) :
                    events[i].args = FindFunctionCall(calls[i].parts).args

\* C14: the Progress Sink is sent at most one completion event, and when it
\* receives the completion event no tool_call event is delivered after it or
\* still scheduled.
C14_CompletionLast ==
    /\ Len(SelectSeq(delivered \o timers, IsCompletionEvent)) <= 1
    /\ \A i \in 1..Len(delivered) :
          IsCompletionEvent(delivered[i])
              => /\ \A j \in (i + 1)..Len(delivered) : ~IsToolCallEvent(delivered[j])
                 /\ \A k \in 1..Len(timers) : ~IsToolCallEvent(timers[k])

\* The completion event has been delivered after five or more tool_call
\* events, the last of which was still scheduled when the loop returned.
C14_Witness ==
    /\ Len(delivered) >= 6
    /\ IsCompletionEvent(delivered[Len(delivered)])
    /\ IsToolCallEvent(delivered[Len(delivered) - 1])
    /\ timers = <<>>

\* C15: a call of the Progress Sink, also one that throws, changes nothing of
\* the loop (its position, counters, transcript, accumulated overlay, model
\* calls and result), and the loop's next step never waits for scheduled
\* sink calls to run.
C15_SinkCannotStallOrFail ==
    /\ [][ delivered' # delivered => UNCHANGED loopVars ]_vars
    /\ []((timers # <<>> /\ pc # "done") => ENABLED Next)

\* A session that completed although the sink threw on every event.
C15_Witness ==
    /\ sink = "throws"
    /\ uncaught >= 5
    /\ outcome = "completed"
    /\ HasOverlay(result)

\* s is a prefix of t.
IsPrefix(s, t) == Len(s) <= Len(t) /\ \A i \in 1..Len(s) : s[i] = t[i]

\* C16: the transcript is append-only, and each iteration that goes on
\* extends it first by the model's turn and then by the loop's reply turn.
C16_TranscriptAppendOnly ==
    [][ /\ IsPrefix(contents, contents')
        /\ contents' # contents
            => /\ IsModelTurn(contents'[Len(contents) + 1])
               /\ pc' = "loop"
                    => /\ Len(contents') = Len(contents) + 2
                       /\ contents'[Len(contents) + 2].role = "user" ]_vars

\* C17: each of the five sequences of the accumulated overlay has its
\* previous value as a prefix, nothing else of the document changes, and the
\* document changes only in a step that receives a show_overlay call with an
\* overlay.
C17_OverlayOnlyGrows ==
    [][ /\ \A f \in OverlayFields :
              IsPrefix(accumulatedSpec[f].array, accumulatedSpec'[f].array)
        /\ DOMAIN accumulatedSpec' = DOMAIN accumulatedSpec
        /\ \A f \in DOMAIN accumulatedSpec \ OverlayFields :
              accumulatedSpec'[f] = accumulatedSpec[f]
        /\ accumulatedSpec' # accumulatedSpec
            => /\ pc = "await"
               /\ Len(contents') > Len(contents)
               /\ HasCall(contents'[Len(contents) + 1])
               /\ LET fc == FindFunctionCall(contents'[Len(contents) + 1].parts) IN
                     /\ IsShowOverlay(fc)
                     /\ "overlay" \in DOMAIN fc.args
                     /\ \A f \in OverlayFields :
                           Len(accumulatedSpec'[f].array) =
                               Len(accumulatedSpec[f].array)
                               + Len(Spread(OrEmpty(fc.args.overlay, f))) ]_vars

\* Two elements in each of the five sequences, from two tool calls.
C17_Witness ==
    /\ toolCallCount >= 2
    /\ \A f \in OverlayFields : Len(accumulatedSpec[f].array) >= 2
    /\ accumulatedSpec.zones.array[1] # accumulatedSpec.zones.array[2]

\* C19: once the session has returned, no further model call, merge or
\* transcript append happens, and a Model Client call that fails ends the
\* session instead of being tried again.
C19_TerminalIsFinal ==
    [][ /\ pc = "done" => UNCHANGED loopVars
        /\ (pc = "await" /\ pc' # "await" /\ contents' = contents)
              => /\ pc' = "done"
                 /\ modelCalls' = modelCalls ]_vars

\* After a failed Model Client call the session is over and events scheduled
\* before the failure have been delivered.
C19_Witness ==
    /\ pc = "done"
    /\ outcome = "error"
    /\ Len(delivered) >= 2
    /\ modelCalls < 10

\* The state of a session that has made no model call yet.
AtSessionStart == pc = "loop" /\ modelCalls = 0

\* All five sequences empty, no tool call counted, and a transcript of one
\* user turn with the media payload and the prompt.
FreshSession ==
    /\ \A f \in OverlayFields : accumulatedSpec[f].array = <<>>
    /\ toolCallCount = 0
    /\ iteration = 0
    /\ Len(contents) = 1
    /\ contents[1].role = "user"
    /\ Len(contents[1].parts) = 2
    /\ "inlineData" \in DOMAIN contents[1].parts[1]
    /\ "text" \in DOMAIN contents[1].parts[2]

\* C18: every session, also one started after an earlier session has
\* finished, starts with an empty accumulated overlay, toolCallCount = 0 and a
\* transcript of exactly one user turn with the media payload and the prompt.
C18_FreshSessionStart ==
    /\ [](AtSessionStart => FreshSession)
    /\ [][session' # session => (AtSessionStart' /\ FreshSession')]_vars

\* The second session is about to make its first model call.
C18_Witness ==
    /\ session = 2
    /\ AtSessionStart

\* The sequence f of a document, empty when the document has no field f.
SeqOf(doc, f) == IF f \in DOMAIN doc THEN doc[f].array ELSE <<>>

\* C20: mergeOverlayData(base, delta) returns a document in which each of
\* the five sequences is base's sequence followed by delta's, a field absent
\* from delta counting as empty, so that the counts add up.
C20_MergeConcatenates ==
    "out" \in DOMAIN probe
        => \A f \in OverlayFields :
              /\ f \in DOMAIN probe.out
              /\ probe.out[f].array = SeqOf(probe.base, f) \o SeqOf(probe.delta, f)
              /\ Len(probe.out[f].array) =
                    Len(SeqOf(probe.base, f)) + Len(SeqOf(probe.delta, f))

\* A merge of a base with all five sequences filled and a delta that has
\* attack lines only.
C20_Witness ==
    /\ "out" \in DOMAIN probe
    /\ DOMAIN probe.delta = {"attackLines"}
    /\ Len(SeqOf(probe.base, "attackLines")) >= 2
    /\ Len(SeqOf(probe.delta, "attackLines")) >= 2
    /\ Len(probe.out.zones.array) >= 2

\* The five sequences of a document.
FiveSeqs(doc) == [f \in OverlayFields |-> SeqOf(doc, f)]

\* C21: for documents a, b, c the five sequences of
\* mergeOverlayData(mergeOverlayData(a, b), c) equal those of
\* mergeOverlayData(a, mergeOverlayData(b, c)), and both are a's elements,
\* then b's, then c's.
C21_MergeAssociative ==
    "right" \in DOMAIN probe
        => /\ FiveSeqs(probe.left) = FiveSeqs(probe.right)
           /\ \A f \in OverlayFields :
                 SeqOf(probe.left, f)
                    = SeqOf(probe.a, f) \o SeqOf(probe.b, f) \o SeqOf(probe.c, f)

\* Both nestings have been computed for three documents that each hold two
\* attack lines.
C21_Witness ==
    /\ "right" \in DOMAIN probe
    /\ Len(SeqOf(probe.a, "attackLines")) >= 2
    /\ Len(SeqOf(probe.b, "attackLines")) >= 2
    /\ Len(SeqOf(probe.c, "attackLines")) >= 2
    /\ Len(SeqOf(probe.right, "attackLines")) >= 6

\* C22: merging a document with the empty document, on either side, gives
\* the document's five sequences back; with the empty document as delta the
\* other fields of the document are kept as well.
C22_EmptyIsIdentity ==
    "under" \in DOMAIN probe
        => /\ FiveSeqs(probe.onto) = FiveSeqs(probe.a)
           /\ FiveSeqs(probe.under) = FiveSeqs(probe.a)
           /\ \A g \in DOMAIN probe.a \ OverlayFields :
                 g \in DOMAIN probe.onto /\ probe.onto[g] = probe.a[g]

\* The empty document has been merged on both sides of a document with two
\* elements in each sequence.
C22_Witness ==
    /\ "under" \in DOMAIN probe
    /\ \A f \in OverlayFields : Len(SeqOf(probe.a, f)) >= 2
    /\ \A f \in OverlayFields : Len(SeqOf(probe.under, f)) >= 2

ConfigurationText ==
    <<"Error: API Key is missing or invalid. Please check your configuration.">>

\* C23: when the exception caught by the loop has a message containing
\* 'API_KEY', the text of the returned result is the fixed configuration
\* message and holds no part of the exception's message.
C23_CredentialErrorMasked ==
    (pc = "done" /\ error.thrown /\ Includes(error.message, "API_KEY"))
        => /\ result.text = ConfigurationText
           /\ \A i \in 1..Len(result.text), j \in 1..Len(error.message) :
                 result.text[i] # error.message[j]

\* A Model Client call has failed with a credential error after a tool call
\* was handled, and the caller has the result.
C23_Witness ==
    /\ pc = "done"
    /\ error.thrown
    /\ Includes(error.message, "API_KEY")
    /\ Includes(error.message, "sk-123")
    /\ toolCallCount >= 1
    /\ "text" \in DOMAIN result

\* Stage values a tool invocation can carry: the three the schema lists and
\* one it does not.
StageTags == {"diagram", "think", "finalize", "replay"}

\* The function call with its stage replaced by g.
WithStage(fc, g) ==
    IF "args" \in DOMAIN fc /\ "stage" \in DOMAIN fc.args
    THEN [fc EXCEPT !.args = [fc.args EXCEPT !.stage = g]]
    ELSE fc

\* C24: the stage of a tool invocation decides nothing.  Whenever a model
\* turn with a tool invocation is received, the branch taken, the merged
\* overlay, the acknowledgement appended to the transcript, the counter and
\* the outcome are what the loop computes for the same invocation with any
\* other stage value, known or not; the scheduled tool_call event carries the
\* arguments of the invocation, stage included, as received.
C24_StageIsOpaque ==
    [][ (/\ pc = "await"
         /\ Len(contents') > Len(contents)
         /\ HasFunctionCall(contents'[Len(contents) + 1].parts))
        => LET fc == FindFunctionCall(contents'[Len(contents) + 1].parts) IN
           \A g \in StageTags :
              LET v == WithStage(fc, g) IN
              /\ IsShowOverlay(v) = IsShowOverlay(fc)
              /\ toolCallCount' = toolCallCount + 1
              /\ IsShowOverlay(fc)
                    => /\ CallThrows(v, accumulatedSpec) = CallThrows(fc, accumulatedSpec)
                       /\ CallThrows(fc, accumulatedSpec) <=> pc' = "done"
                       /\ pc' = "loop"
                             => /\ accumulatedSpec' = SpecAfterCall(v, accumulatedSpec)
                                /\ contents'[Len(contents')]
                                      = FunctionResponse(v.args, toolCallCount')
                                /\ timers' = Append(timers, ToolCallEvent(fc))
                                /\ timers'[Len(timers')].args.stage = fc.args.stage
                                /\ ToolCallEvent(v).args.stage = g
              /\ ~IsShowOverlay(fc)
                    => /\ pc' = "loop"
                       /\ timers' = timers
                       /\ accumulatedSpec' = accumulatedSpec ]_vars

\* A session whose five tool invocations carried a stage the schema does not
\* list has completed with their five lines.
C24_Witness ==
    /\ outcome = "completed"
    /\ Len(timers) = 6
    /\ \A i \in 1..5 : timers[i].args.stage = "replay"
    /\ Len(accumulatedSpec.attackLines.array) = 5
    /\ HasOverlay(result)

RECURSIVE JoinedText(_, _)
\* The text segments of the first k parts of a turn, one after the other.
JoinedText(parts, k) ==
    IF k = 0
    THEN <<>>
    ELSE JoinedText(parts, k - 1)
            \o (IF "text" \in DOMAIN parts[k] THEN parts[k].text ELSE <<>>)

\* C25: the text of a result returned on the normal completion path is the
\* text segments of the last model turn joined in order, or 'Analysis
\* complete.' when that is the empty string; it holds no text of an earlier
\* model turn.
C25_FinalTextOfLastTurn ==
    outcome = "completed"
        => LET final == contents[Len(contents)]
               joined == JoinedText(final.parts, Len(final.parts))
           IN /\ final.role = "model"
              /\ ~HasFunctionCall(final.parts)
              /\ result.text = IF joined = <<>> THEN <<"Analysis complete.">> ELSE joined
              /\ ~Includes(result.text, "Drawing.")
              /\ Len(result.text) <= MaxTextParts + 1

\* A session has completed on a turn of two text segments, after an earlier
\* turn without a tool call was answered with the forced continuation.
C25_Witness ==
    /\ outcome = "completed"
    /\ Len(contents[Len(contents)].parts) = 2
    /\ result.text = <<"Summary.", "Done.">>
    /\ \E i \in 1..(Len(contents) - 1) :
          /\ contents[i].role = "model"
          /\ ~HasFunctionCall(contents[i].parts)

\* The parts of the i-th model turn a scripted client produces.
ScriptedParts(c, i) ==
    IF i <= c.script.upto \/ c.script.then = "tool"
    THEN ToolParts(c.tool, i)
    ELSE TextParts(c.noTool)

RECURSIVE AcknowledgedDeltas(_, _, _)
\* The deltas in field f of the model turns among the first i turns of a
\* transcript that were acknowledged, one after the other.
AcknowledgedDeltas(transcript, i, f) ==
    IF i = 0
    THEN <<>>
    ELSE AcknowledgedDeltas(transcript, i - 1, f)
            \o (IF /\ IsModelTurn(transcript[i])
                   /\ i < Len(transcript)
                   /\ IsAcknowledgement(transcript[i + 1])
                THEN DeltaOf(transcript[i], f)
                ELSE <<>>)

\* The document a call accumulates from its own transcript.
OwnDocument(r) ==
    [f \in DOMAIN EmptySpec |->
        IF f \in OverlayFields
        THEN Arr(AcknowledgedDeltas(r.contents, Len(r.contents), f))
        ELSE EmptySpec[f]]

\* The result a call returns from its own replies.
OwnResult(r) ==
    CASE r.outcome = "completed" ->
            CompletionResult(ConcatText(r.contents[Len(r.contents)].parts), OwnDocument(r))
      [] r.outcome \in {"maxIterations", "noContent"} -> ReturnAfterLoop(OwnDocument(r))
      [] r.outcome = "error" -> Catch(r.error.message, OwnDocument(r))
      [] OTHER -> NoResult

\* The locals r of a call hold what the call's own client replied and
\* nothing else.
OnlyOwnReplies(r) ==
    /\ \A i \in 1..Len(ModelTurnsOf(r.contents)) :
          ModelTurnsOf(r.contents)[i].parts = ScriptedParts(r.client, i)
    /\ r.contents[1] = InitialContents[1]
    /\ r.accumulatedSpec = OwnDocument(r)
    /\ r.result = OwnResult(r)

\* C26: of two calls of analyzeMediaAgentic whose model calls interleave,
\* each has in its transcript only the turns of its own client, in its
\* accumulated overlay only the elements of its own acknowledged tool calls,
\* and as result what it returns for these replies alone; a step of one call
\* changes nothing of the other.
C26_SessionsIndependent ==
    /\ []("pc" \in DOMAIN peer
            => OnlyOwnReplies(peer) /\ OnlyOwnReplies(Locals(3 - peer.id)))
    /\ [][ ("pc" \in DOMAIN peer /\ peer'.id = peer.id) => peer' = peer ]_vars

\* Two calls with different clients have both returned, one completed with
\* five attack lines, the other at the iteration limit with two movement paths.
C26_Witness ==
    /\ "pc" \in DOMAIN peer
    /\ pc = "done"
    /\ peer.pc = "done"
    /\ outcome = "completed"
    /\ peer.outcome = "maxIterations"
    /\ Len(accumulatedSpec.attackLines.array) = 5
    /\ accumulatedSpec.movementPaths.array = <<>>
    /\ Len(peer.accumulatedSpec.movementPaths.array) = 2
    /\ peer.accumulatedSpec.attackLines.array = <<>>
    /\ HasOverlay(result)

IsValidBlock(tok) ==
    IsVisualizationBlock(tok) /\ Decodes(tok) /\ HasKnownType(tok.body.json)

IsUndecodableBlock(tok) == IsVisualizationBlock(tok) /\ ~Decodes(tok)

DecodedValue(tok) == tok.body.json

\* The values of the tokens of a sequence of decodable blocks.
ValuesOf(blocks) == [i \in 1..Len(blocks) |-> DecodedValue(blocks[i])]

\* C27: of a single-shot reply text, the visualizations are exactly the
\* fenced visualization blocks that decode as JSON and have an allowed type,
\* in source order; the cleaned text holds none of these blocks and still
\* holds every visualization block that fails to decode.
C27_FencedBlockExtraction ==
    "parsed" \in DOMAIN probe
        => /\ probe.parsed.visualizations = ValuesOf(SelectSeq(probe.text, IsValidBlock))
           /\ SelectSeq(probe.parsed.cleanText, IsValidBlock) = <<>>
           /\ SelectSeq(probe.parsed.cleanText, IsUndecodableBlock)
                 = SelectSeq(probe.text, IsUndecodableBlock)

\* C28: a result with the text 'Analysis reached maximum iterations.' is
\* returned only after 10 model calls, and a session that leaves the loop
\* because a response has no content parts does not return that text.
C28_MaxIterationsTextOnlyAtLimit ==
    pc = "done"
        => /\ result.text = MaxIterationsText => modelCalls = MAX_ITERATIONS
           /\ outcome = "noContent" => result.text # MaxIterationsText

\* The step receives a model turn that has a tool invocation.
ReceivesTurnWithCall ==
    /\ pc = "await"
    /\ Len(contents') > Len(contents)
    /\ HasFunctionCall(contents'[Len(contents) + 1].parts)

\* C29: toolCallCount is the number of model turns with a tool invocation
\* received so far.  A step that receives such a turn adds exactly one to it,
\* whatever the invocation's name, arguments or overlay, and uses up the
\* iteration the turn was requested in: no model call is given back and the
\* loop, when it goes on, goes on with the next iteration.  No other step
\* changes toolCallCount.
C29_EveryInvocationCounted ==
    /\ [](toolCallCount = Len(SelectSeq(ModelTurnsOf(contents), HasCall)))
    /\ [][ /\ ReceivesTurnWithCall
                => /\ toolCallCount' = toolCallCount + 1
                   /\ modelCalls = iteration + 1
                   /\ modelCalls' = modelCalls
                   /\ pc' = "loop" => iteration' = modelCalls
                   /\ pc' # "loop" => (pc' = "done" /\ outcome' = "error")
           /\ ~ReceivesTurnWithCall => toolCallCount' = toolCallCount ]_vars

\* Five invocations of a tool the loop does not know were counted and the
\* completion was then accepted, with nothing merged.
C29_Witness ==
    /\ outcome = "completed"
    /\ toolCallCount = 5
    /\ iteration = 5
    /\ ~hasVisibleContent(accumulatedSpec)
    /\ \A i \in 1..5 :
          FindFunctionCall(ModelTurnsOf(contents)[i].parts).name = "zoom_in"

\* The number of model turns with a tool invocation among the first k turns.
CallsBefore(transcript, k) ==
    Cardinality({j \in 1..k : IsModelTurn(transcript[j]) /\ HasCall(transcript[j])})

\* The turn is a forced-continuation turn: a user turn that is one text part.
IsForceTurn(turn) ==
    /\ turn.role = "user"
    /\ Len(turn.parts) = 1
    /\ "text" \in DOMAIN turn.parts[1]

\* The numerals of 1 to 5.
OneToFive == {"1", "2", "3", "4", "5"}

\* C30: every acknowledgement turn of the transcript states success and,
\* with remaining = 5 - (tool calls counted so far), names exactly remaining
\* when remaining > 0 and no number otherwise; every forced-continuation turn
\* names exactly 5 - (tool calls counted so far) more calls; each number
\* named this way is one of 1 to 5.
C30_RemainingCallsNamed ==
    \A i \in 2..Len(contents) :
        LET remaining == MIN_ITERATIONS - CallsBefore(contents, i - 1) IN
        /\ IsAcknowledgement(contents[i])
              => LET response == contents[i].parts[1].functionResponse.response IN
                 /\ response.success = TRUE
                 /\ IF remaining > 0
                    THEN /\ Len(response.message) = 5
                         /\ response.message[4] = ToString(remaining)
                         /\ response.message[4] \in OneToFive
                    ELSE /\ Len(response.message) = 3
                         /\ response.message[3] =
                               " displayed successfully. Continue with next step or provide final summary."
        /\ IsForceTurn(contents[i])
              => LET message == contents[i].parts[1].text IN
                 /\ remaining > 0
                 /\ message[4] = ToString(remaining)
                 /\ message[4] \in OneToFive
                 /\ message[2] = ToString(MIN_ITERATIONS - remaining)

\* A transcript with an acknowledgement that names 4 more calls, a forced
\* continuation that names a number, and an acknowledgement of a sixth call
\* that names none.
C30_Witness ==
    /\ toolCallCount >= 6
    /\ \E i \in 2..Len(contents) :
          /\ IsAcknowledgement(contents[i])
          /\ Len(contents[i].parts[1].functionResponse.response.message) = 5
          /\ contents[i].parts[1].functionResponse.response.message[4] = "4"
    /\ \E i \in 2..Len(contents) :
          /\ IsForceTurn(contents[i])
          /\ contents[i].parts[1].text[4] \in OneToFive
    /\ \E i \in 2..Len(contents) :
          /\ IsAcknowledgement(contents[i])
          /\ Len(contents[i].parts[1].functionResponse.response.message) = 3

\* The turn has a text part and a part with a tool invocation.
IsMixedTurn(turn) ==
    /\ \E i \in 1..Len(turn.parts) : "text" \in DOMAIN turn.parts[i]
    /\ \E j \in 1..Len(turn.parts) : IsFunctionCallPart(turn.parts[j])

IsRejectedBlock(tok) ==
    /\ IsVisualizationBlock(tok)
    /\ Decodes(tok)
    /\ ("type" \notin DOMAIN tok.body.json \/ tok.body.json.type # "play_diagram")

\* The reply text of a response that has content parts.
ReplyText(response) ==
    LET parts == response.candidates[1].content.parts IN
    JoinedText(parts, Len(parts))

HasReplyText(response) ==
    /\ "candidates" \in DOMAIN response
    /\ response.candidates # <<>>
    /\ "content" \in DOMAIN response.candidates[1]

\* C32: in single-shot mode a fenced visualization block that decodes but
\* has no type or a type outside the allow-list is not among the
\* visualizations and, like every matched block, not in the returned text;
\* the result has a visualizations field only when a block was kept; when
\* nothing but matched blocks and whitespace was in the reply, the text is
\* the fixed fallback sentence.
C32_RejectedBlocksStripped ==
    ("out" \in DOMAIN probe /\ "response" \in DOMAIN probe /\ HasReplyText(probe.response))
        => LET text == ReplyText(probe.response) IN
           /\ \A i \in 1..Len(text) :
                 (IsRejectedBlock(text[i]) /\ HasOverlay(probe.out))
                    => \A k \in 1..Len(probe.out.visualizations) :
                          probe.out.visualizations[k] # text[i].body.json
           /\ SelectSeq(probe.out.text, IsVisualizationBlock) = <<>>
           /\ HasOverlay(probe.out) <=> SelectSeq(text, IsValidBlock) # <<>>
           /\ HasOverlay(probe.out)
                 => Len(probe.out.visualizations) = Len(SelectSeq(text, IsValidBlock))
           /\ (\A i \in 1..Len(text) : IsVisualizationBlock(text[i]) \/ IsSpace(text[i]))
                 => probe.out.text = FallbackText

\* A reply of a valid block, a block of a type outside the allow-list and a
\* block without a type, split over two text parts, has been analysed.
C32_Witness ==
    /\ "out" \in DOMAIN probe
    /\ "response" \in DOMAIN probe
    /\ HasReplyText(probe.response)
    /\ Len(probe.response.candidates[1].content.parts) = 2
    /\ Len(SelectSeq(ReplyText(probe.response), IsRejectedBlock)) = 2
    /\ Len(SelectSeq(ReplyText(probe.response), IsValidBlock)) = 1
    /\ probe.out.text = FallbackText
    /\ Len(probe.out.visualizations) = 1

\* C39: when generateContent rejects in single-shot mode with a message that
\* contains 'API_KEY', the returned text is the fixed configuration message
\* and holds no part of the provider's message, also when the message embeds
\* a JSON body with an error.message field.
C39_SingleShotCredentialErrorMasked ==
    ("out" \in DOMAIN probe /\ "rejected" \in DOMAIN probe
        /\ Includes(probe.rejected, "API_KEY"))
        => /\ probe.out.text = ConfigurationText
           /\ \A i \in 1..Len(probe.out.text), j \in 1..Len(probe.rejected) :
                 probe.out.text[i] # probe.rejected[j]

\* The last iteration of the for loop.
LastIteration == MAX_ITERATIONS - 1

\* C33: a model turn without a tool call received on the 10th iteration ends
\* the session on the normal completion path with the turn's text when
\* toolCallCount >= 5; when toolCallCount < 5 the forced-continuation turn is
\* appended, the loop's test then fails, and the session returns the
\* maximum-iterations result without the model's text.
C33_LastIterationWithoutCall ==
    /\ [][ (ReceivesTurnWithoutCall /\ iteration = LastIteration)
            => LET turn == contents'[Len(contents) + 1]
                   joined == JoinedText(turn.parts, Len(turn.parts))
               IN IF toolCallCount >= MIN_ITERATIONS
                  THEN /\ outcome' = "completed"
                       /\ pc' = "done"
                       /\ result'.text = IF joined = <<>> THEN <<"Analysis complete.">> ELSE joined
                       /\ result'.text # MaxIterationsText
                  ELSE /\ pc' = "loop"
                       /\ iteration' = MAX_ITERATIONS
                       /\ result' = NoResult
                       /\ IsForceTurn(contents'[Len(contents')]) ]_vars
    /\ [][ (pc = "loop" /\ iteration = MAX_ITERATIONS)
            => /\ pc' = "done"
               /\ outcome' = "maxIterations"
               /\ modelCalls' = MAX_ITERATIONS
               /\ contents' = contents
               /\ result'.text = MaxIterationsText ]_vars
    /\ [](pc = "done" /\ iteration = MAX_ITERATIONS => result.text = MaxIterationsText)

\* The model answered the 10th call with 'Done.' after four tool calls: the
\* transcript ends with the forced continuation and the caller has the
\* maximum-iterations result.
C33_Witness ==
    /\ pc = "done"
    /\ outcome = "maxIterations"
    /\ toolCallCount = 4
    /\ modelCalls = MAX_ITERATIONS
    /\ contents[Len(contents)] = ForceTurn(4)
    /\ contents[Len(contents) - 1] = ModelTurn(<<[text |-> <<"Done.">>]>>)
    /\ result.text = MaxIterationsText

\* The number of forced-continuation turns of a transcript.
ForcedCount(transcript) ==
    Cardinality({i \in 2..Len(transcript) : IsForceTurn(transcript[i])})

\* C34: whenever the loop is at the top of an iteration or awaits the call
\* made in it, the iteration index is toolCallCount plus the number of
\* forced-continuation turns appended so far; a session that completed
\* normally has made at least 6 model calls and saw at most 4 forced
\* continuations.
C34_IterationAccounting ==
    /\ pc \in {"loop", "await"} => iteration = toolCallCount + ForcedCount(contents)
    /\ outcome = "completed"
          => /\ modelCalls >= MIN_ITERATIONS + 1
             /\ ForcedCount(contents) <= MAX_ITERATIONS - MIN_ITERATIONS - 1
             /\ modelCalls = toolCallCount + ForcedCount(contents) + 1
    /\ ForcedCount(contents) >= MAX_ITERATIONS - MIN_ITERATIONS => outcome # "completed"

\* A session completed on its 10th model call after five tool calls and
\* four forced continuations.
C34_Witness ==
    /\ outcome = "completed"
    /\ modelCalls = MAX_ITERATIONS
    /\ toolCallCount = 5
    /\ ForcedCount(contents) = 4

IsCompletionTimer(event) == event.type = "completion"

\* C35: a completion event has been scheduled exactly when the session has
\* ended on the normal completion path; it is scheduled once, after every
\* tool_call event, and carries the joined text of the last model turn as it
\* is, the empty text included, whatever text the result carries.
C35_CompletionEventIffCompleted ==
    LET scheduled == SelectSeq(timers, IsCompletionTimer) IN
    /\ scheduled # <<>> <=> outcome = "completed"
    /\ outcome = "completed"
          => LET final == contents[Len(contents)] IN
             /\ Len(scheduled) = 1
             /\ timers[Len(timers)] = scheduled[1]
             /\ scheduled[1].finalText = JoinedText(final.parts, Len(final.parts))
             /\ scheduled[1].finalText = <<>> => result.text = <<"Analysis complete.">>
             /\ scheduled[1].finalText # <<>> => result.text = scheduled[1].finalText
    /\ outcome \in {"maxIterations", "noContent", "error"}
          => \A i \in 1..Len(timers) : timers[i].type = "tool_call"

\* A session completed on a turn whose text is empty: the event carries the
\* empty text and the result the fallback.
C35_Witness ==
    /\ outcome = "completed"
    /\ timers # <<>>
    /\ timers[Len(timers)].type = "completion"
    /\ timers[Len(timers)].finalText = <<>>
    /\ result.text = <<"Analysis complete.">>
    /\ Len(timers) >= 6

\* C36: at the step in which analyzeMediaAgentic returns, and its caller's
\* continuation is the next code to run, no tool_call callback of the
\* session is still waiting in the timer queue.
C36_ToolCallsDeliveredBeforeResult ==
    [][ (pc # "done" /\ pc' = "done")
            => \A i \in 1..Len(timers') : timers'[i].type # "tool_call" ]_vars

\* C37: in a view that has started one session only, whenever no callback
\* of the session is left to run the five sequences of the view's
\* accumulatedOverlay are those of the loop's accumulatedSpec, and no update
\* of the view has thrown.
C37_ViewOverlayMatchesLoop ==
    (session = 1 /\ pc \in {"await", "done"} /\ timers = <<>>)
        => /\ FiveSeqs(view.accumulatedOverlay) = FiveSeqs(accumulatedSpec)
           /\ ~view.crashed

\* A single session has completed after five tool calls and the view has
\* received every event of it and the result.
C37_Witness ==
    /\ session = 1
    /\ outcome = "completed"
    /\ timers = <<>>
    /\ view.received = {1}
    /\ Len(SeqOf(view.accumulatedOverlay, "attackLines")) = MIN_ITERATIONS

\* C38: handleAnalyze is entered only when the view has got the result of
\* every session it started before, and the view's accumulatedOverlay has
\* taken elements only from events of the session started last.
C38_OnlyCurrentSessionMerged ==
    /\ [][ session' # session => view.received = 1..session ]_vars
    /\ [](view.mergedFrom \subseteq {session})

====
